---- MODULE Spec2Model ----
(***************************************************************************)
(* A model of the QR video extractor's packet decoders, phase-3 file       *)
(* reconstruction and resumable chunk workflow.                            *)
(*                                                                         *)
(* Strings are sequences of tokens.  A token is a record [t, v]: t is the  *)
(* kind of the token (a separator character such as ":", "|" or ",", a     *)
(* decimal number "num", a base64 run "b64", ...) and v is its value, a    *)
(* sequence of naturals.  Splitting, joining and parsing are computed on    *)
(* these sequences the way the Rust code computes them on &str.            *)
(***************************************************************************)
EXTENDS Integers, Sequences, FiniteSets, TLC

\* ------------------------------------------------------------------------
\* Bounds of the model
\* ------------------------------------------------------------------------
\* number of QR payloads fed to one decoder in one run
MaxStream == 6

\* number of metadata payloads among them
MaxFiles == 3

\* ------------------------------------------------------------------------
\* Strings as token sequences
\* ------------------------------------------------------------------------
Tok(t, v) == [t |-> t, v |-> v]

Colon == Tok(":", <<>>)

Pipe == Tok("|", <<>>)

Comma == Tok(",", <<>>)

Num(n) == Tok("num", <<n>>)

B64(bytes) == Tok("b64", bytes)

\* a base64 run whose trailing '=' padding is missing
B64Unpadded(bytes) == Tok("b64u", bytes)

Name(n) == Tok("name", <<n>>)

\* the value of an Option<String> that is None
None == <<Tok("None", <<>>)>>

RECURSIVE SplitAcc(_, _, _, _, _)
SplitAcc(s, c, i, cur, acc) ==
    IF i > Len(s) THEN Append(acc, cur)
    ELSE IF s[i].t = c THEN SplitAcc(s, c, i + 1, <<>>, Append(acc, cur))
    ELSE SplitAcc(s, c, i + 1, Append(cur, s[i]), acc)

\* str::split(c): the fields between the separators; "" gives one empty field
Split(s, c) == SplitAcc(s, c, 1, <<>>, <<>>)

RECURSIVE Join(_, _)
\* [&str]::join(c)
Join(fields, c) ==
    IF Len(fields) = 0 THEN <<>>
    ELSE IF Len(fields) = 1 THEN fields[1]
    ELSE fields[1] \o <<Tok(c, <<>>)>> \o Join(Tail(fields), c)

\* str::contains(c)
Contains(s, c) == \E i \in 1..Len(s) : s[i].t = c

\* str::splitn(2, c): cut at the first separator only
SplitN2(s, c) ==
    IF ~Contains(s, c) THEN <<s>>
    ELSE LET i == CHOOSE j \in 1..Len(s) :
                      s[j].t = c /\ \A k \in 1..(j - 1) : s[k].t # c
         IN <<SubSeq(s, 1, i - 1), SubSeq(s, i + 1, Len(s))>>

\* parts[from..] with a 0-based index, as the Rust slices are written
SliceFrom(parts, from) == SubSeq(parts, from + 1, Len(parts))

\* str::starts_with("X:")
StartsWith(s, x) == Len(s) >= 2 /\ s[1].t = x /\ s[2].t = ":"

\* str::parse::<usize>() succeeds on a field that is one decimal number
ParseOk(f) == Len(f) = 1 /\ f[1].t = "num"

ParseVal(f) == f[1].v[1]

\* general_purpose::STANDARD.decode: the empty string decodes to no bytes,
\* a well padded run decodes to its bytes, anything else is an error
B64DecodeOk(f) == Len(f) = 0 \/ (Len(f) = 1 /\ f[1].t = "b64")

B64DecodeVal(f) == IF Len(f) = 0 THEN <<>> ELSE f[1].v

\* ------------------------------------------------------------------------
\* Bytes, XOR and the FNV-1a checksum
\* ------------------------------------------------------------------------
RECURSIVE BitXor(_, _)
BitXor(a, b) ==
    IF a = 0 THEN b
    ELSE IF b = 0 THEN a
    ELSE (((a % 2) + (b % 2)) % 2) + 2 * BitXor(a \div 2, b \div 2)

\* a 32-bit hash is kept as two 16-bit halves [hi, lo]
FnvOffsetBasis == [hi |-> 33052, lo |-> 40389]

\* hash ^= byte; hash = hash.wrapping_mul(16777619), 16777619 = 2^24 + 403
FnvStep(h, byte) ==
    LET lo1 == BitXor(h.lo, byte)
        p   == lo1 * 403
    IN [lo |-> p % 65536,
        hi |-> ((p \div 65536) + h.hi * 403 + (lo1 % 256) * 256) % 65536]

RECURSIVE FnvFold(_, _, _)
FnvFold(h, data, i) ==
    IF i > Len(data) THEN h ELSE FnvFold(FnvStep(h, data[i]), data, i + 1)

Fnv1a32(data) == FnvFold(FnvOffsetBasis, data, 1)

\* the eight nibbles of a 32-bit value, most significant first
Nibbles(h) ==
    << (h.hi \div 4096) % 16, (h.hi \div 256) % 16, (h.hi \div 16) % 16, h.hi % 16,
       (h.lo \div 4096) % 16, (h.lo \div 256) % 16, (h.lo \div 16) % 16, h.lo % 16 >>

RECURSIVE StripZeros(_)
StripZeros(d) == IF Len(d) > 1 /\ d[1] = 0 THEN StripZeros(Tail(d)) ELSE d

\* format!("{:x}", hash): lowercase hex without leading zeros
FormatHex(h) == StripZeros(Nibbles(h))

HexStr(digits) == <<Tok("hex", digits)>>

\* ------------------------------------------------------------------------
\* State shared by the decoders
\* ------------------------------------------------------------------------
\* A decoder state st is [files, active, written, file_counter]:
\*   files         the HashMap from file key to file decoder
\*   active        current_active_file / current_active_decoder /
\*                 current_file_name, an Option<String>
\*   written       the output directory: file name -> [data, by], the bytes
\*                 on disk and the key of the file decoder that wrote them
\*   file_counter  FileReconstructor::file_counter
\* A file decoder is [metadata, source_chunks, coded_packets,
\* recovered_chunk_count, total_chunks, is_complete]; source_chunks is a
\* function whose domain is the set of chunk indices held.

EmptyMap == [x \in {} |-> <<>>]

Put(m, k, v) == (k :> v) @@ m

NewState == [files |-> EmptyMap, active |-> None, written |-> EmptyMap,
             file_counter |-> 0]

\* std::fs::write(output_dir.join(&metadata.file_name), &file_data)
WriteFile(st, key, data) ==
    [st EXCEPT !.written = Put(@, st.files[key].metadata.file_name,
                               [data |-> data, by |-> key])]

\* urlencoding::decode: a percent-encoded name decodes to the plain name
UrlDecode(f) ==
    [i \in 1..Len(f) |-> IF f[i].t = "pct" THEN Tok("name", f[i].v) ELSE f[i]]

\* Option<&str> of parts.get(i) (0-based) filtered to non-empty
GetNonEmpty(parts, i) ==
    IF Len(parts) > i /\ Len(parts[i + 1]) > 0 THEN parts[i + 1] ELSE None

\* a.iter_mut().zip(b.iter()): XOR over the common prefix, the rest of a kept
xor_data(a, b) ==
    [i \in 1..Len(a) |-> IF i <= Len(b) THEN BitXor(a[i], b[i]) ELSE a[i]]

\* Vec::truncate
Truncate(data, n) == IF Len(data) > n THEN SubSeq(data, 1, n) ELSE data

RECURSIVE ConcatChunks(_, _, _)
\* the chunks 0..n-1 that are held, appended in ascending index order
ConcatChunks(chunks, i, n) ==
    IF i >= n THEN <<>>
    ELSE (IF i \in DOMAIN chunks THEN chunks[i] ELSE <<>>)
         \o ConcatChunks(chunks, i + 1, n)

\* ------------------------------------------------------------------------
\* main.rs: FountainDecoder / FileDecoder (decode command)
\* ------------------------------------------------------------------------
\* the systematic records of a body "idx:b64|idx:b64|..."
RECURSIVE ParseRecords(_, _)
ParseRecords(records, i) ==
    IF i > Len(records) THEN <<>>
    ELSE LET chunk_parts == SplitN2(records[i], ":")
             rest == ParseRecords(records, i + 1)
         IN IF Len(chunk_parts) = 2 /\ ParseOk(chunk_parts[1])
                                    /\ B64DecodeOk(chunk_parts[2])
            THEN <<[chunk_index |-> ParseVal(chunk_parts[1]),
                    chunk_data  |-> B64DecodeVal(chunk_parts[2])]>> \o rest
            ELSE rest

\* split(',').filter_map(|s| s.parse().ok()): the unparsable items are dropped
RECURSIVE FilterMapParse(_, _)
FilterMapParse(items, i) ==
    IF i > Len(items) THEN <<>>
    ELSE (IF ParseOk(items[i]) THEN <<ParseVal(items[i])>> ELSE <<>>)
         \o FilterMapParse(items, i + 1)

\* the indices of a packet that the decoder does not hold, in packet order
RECURSIVE MissingOf(_, _, _)
MissingOf(source, chunks, i) ==
    IF i > Len(source) THEN <<>>
    ELSE (IF source[i] \in DOMAIN chunks THEN <<>> ELSE <<source[i]>>)
         \o MissingOf(source, chunks, i + 1)

\* XOR the payload with every held chunk of the packet except the missing one
RECURSIVE XorKnown(_, _, _, _, _)
XorKnown(result, source, chunks, missing_idx, i) ==
    IF i > Len(source) THEN result
    ELSE IF source[i] # missing_idx /\ source[i] \in DOMAIN chunks
         THEN XorKnown(xor_data(result, chunks[source[i]]), source, chunks,
                       missing_idx, i + 1)
         ELSE XorKnown(result, source, chunks, missing_idx, i + 1)

\* keep the packets whose index is not in the set remove
RECURSIVE RemoveAt(_, _, _)
RemoveAt(packets, remove, i) ==
    IF i > Len(packets) THEN <<>>
    ELSE (IF i \in remove THEN <<>> ELSE <<packets[i]>>)
         \o RemoveAt(packets, remove, i + 1)

\* one scan of process_coded_packets over coded_packets, in index order;
\* chunks recovered early in the scan are seen by the packets after them
RECURSIVE CodedScan(_, _, _, _)
CodedScan(fd, idx, remove, progress) ==
    IF idx > Len(fd.coded_packets)
    THEN [fd |-> fd, remove |-> remove, progress |-> progress]
    ELSE LET packet == fd.coded_packets[idx]
             missing_chunks == MissingOf(packet.source_chunks, fd.source_chunks, 1)
         IN IF Len(missing_chunks) = 1
            THEN LET m == missing_chunks[1]
                     result_data == XorKnown(packet.xor_data, packet.source_chunks,
                                             fd.source_chunks, m, 1)
                 IN CodedScan([fd EXCEPT
                                  !.source_chunks = Put(@, m, result_data),
                                  !.recovered_chunk_count = @ + 1],
                              idx + 1, remove \cup {idx}, TRUE)
            ELSE IF Len(missing_chunks) = 0
                 THEN CodedScan(fd, idx + 1, remove \cup {idx}, progress)
                 ELSE CodedScan(fd, idx + 1, remove, progress)

\* FileDecoder::process_coded_packets; passes counts the iterations of the
\* while loop
RECURSIVE process_coded_packets_from(_, _)
process_coded_packets_from(fd, passes) ==
    LET scan == CodedScan(fd, 1, {}, FALSE)
        next == [scan.fd EXCEPT
                    !.coded_packets = RemoveAt(@, scan.remove, 1)]
    IN IF scan.progress THEN process_coded_packets_from(next, passes + 1)
       ELSE [fd |-> next, passes |-> passes + 1]

process_coded_packets(fd) == process_coded_packets_from(fd, 0).fd

\* the systematic branch of FileDecoder::add_packet
RECURSIVE StoreSystematic(_, _, _)
StoreSystematic(fd, chunks, i) ==
    IF i > Len(chunks) THEN fd
    ELSE LET chunk_idx == chunks[i].chunk_index
         IN IF chunk_idx < fd.total_chunks /\ chunk_idx \notin DOMAIN fd.source_chunks
            THEN StoreSystematic([fd EXCEPT
                     !.source_chunks = Put(@, chunk_idx, chunks[i].chunk_data),
                     !.recovered_chunk_count = @ + 1], chunks, i + 1)
            ELSE StoreSystematic(fd, chunks, i + 1)

\* FileDecoder::add_packet
FileDecoder_add_packet(fd, packet) ==
    IF packet.is_systematic
    THEN StoreSystematic(fd, packet.systematic_data_chunks, 1)
    ELSE process_coded_packets([fd EXCEPT !.coded_packets = Append(@, packet)])

\* FileDecoder::is_complete
FileDecoder_is_complete(fd) == fd.recovered_chunk_count >= fd.total_chunks

\* FileDecoder::calculate_file_checksum: the hex digits, zero-padded on the
\* left to eight characters
calculate_file_checksum(data) ==
    LET base36 == FormatHex(Fnv1a32(data))
    IN IF Len(base36) >= 8 THEN HexStr(SubSeq(base36, 1, 8))
       ELSE HexStr(Nibbles(Fnv1a32(data)))

\* FileDecoder::reconstruct_file: [ok, data]
reconstruct_file(fd) ==
    LET n == fd.total_chunks
        file_data == Truncate(ConcatChunks(fd.source_chunks, 0, n),
                              fd.metadata.file_size)
    IN IF \E i \in 0..(n - 1) : i \notin DOMAIN fd.source_chunks
       THEN [ok |-> FALSE, data |-> <<>>]
       ELSE IF fd.metadata.file_checksum # None
               /\ calculate_file_checksum(file_data) # fd.metadata.file_checksum
            THEN [ok |-> FALSE, data |-> <<>>]
            ELSE [ok |-> TRUE, data |-> file_data]

\* FountainDecoder::finalize_file: [st, ok]
finalize_file(st, file_key) ==
    IF file_key \notin DOMAIN st.files THEN [st |-> st, ok |-> FALSE]
    ELSE LET fd == st.files[file_key]
             r  == reconstruct_file(fd)
         IN IF r.ok
            THEN [st |-> WriteFile(st, file_key, r.data), ok |-> TRUE]
            ELSE [st |-> st, ok |-> FALSE]

\* the metadata packet switches the active file only when it discovers a file
activate_new_file_only(st, file_key, known) ==
    IF known THEN st ELSE [st EXCEPT !.active = file_key]

\* self.current_active_file = Some(file_key), whether or not the file was
\* already known
set_current_active_file(st, file_key, known) == [st EXCEPT !.active = file_key]

\* FountainDecoder::process_metadata_packet: [st, ok]
FountainDecoder_process_metadata_packet(st, meta_string) ==
    LET parts == Split(meta_string, ":")
    IN IF Len(parts) < 10 THEN [st |-> st, ok |-> FALSE]
       ELSE IF ~(\A i \in 5..10 : ParseOk(parts[i]))
                 \/ (Len(parts) > 10 /\ ~ParseOk(parts[11]))
                 \/ (Len(parts) > 11 /\ ~ParseOk(parts[12]))
            THEN [st |-> st, ok |-> FALSE]
            ELSE
            LET metadata == [file_name     |-> UrlDecode(parts[3]),
                             file_size     |-> ParseVal(parts[5]),
                             chunks_count  |-> ParseVal(parts[6]),
                             file_checksum |-> GetNonEmpty(parts, 13)]
                file_key == metadata.file_name
                            \o <<Tok("_", <<>>), Num(metadata.chunks_count)>>
                files1 == IF file_key \in DOMAIN st.files THEN st.files
                          ELSE Put(st.files, file_key,
                                   [metadata |-> metadata,
                                    source_chunks |-> EmptyMap,
                                    coded_packets |-> <<>>,
                                    recovered_chunk_count |-> 0,
                                    total_chunks |-> metadata.chunks_count,
                                    is_complete |-> FALSE])
            IN [st |-> set_current_active_file([st EXCEPT !.files = files1],
                                               file_key, file_key \in DOMAIN st.files),
                ok |-> TRUE]

\* routing by chunk count: the first file whose total_chunks is num_chunks
find_file_for_packet(st, num_chunks) ==
    IF \E k \in DOMAIN st.files : st.files[k].total_chunks = num_chunks
    THEN CHOOSE k \in DOMAIN st.files : st.files[k].total_chunks = num_chunks
    ELSE None

\* the file key a data packet is routed to: current_active_file, whatever
\* num_chunks the packet carries
current_file_key(st, num_chunks) == st.active

\* a data packet arrives and a decoder is made for it on the spot
orphan_decoder(st) ==
    [st |-> [st EXCEPT !.files = Put(@, <<Tok("orphan", <<>>)>>,
                           [metadata |-> [file_name |-> <<Tok("orphan", <<>>)>>,
                                          file_size |-> 0, chunks_count |-> 0,
                                          file_checksum |-> None],
                            source_chunks |-> EmptyMap, coded_packets |-> <<>>,
                            recovered_chunk_count |-> 0, total_chunks |-> 0,
                            is_complete |-> FALSE])],
     ok |-> TRUE]

\* a data packet arrives while current_active_file is None: Err, nothing changes
no_active_file(st) == [st |-> st, ok |-> FALSE]

\* FountainDecoder::process_data_packet: [st, ok]
FountainDecoder_process_data_packet(st, data_string) ==
    LET parts == Split(data_string, ":")
    IN IF Len(parts) < 6 THEN [st |-> st, ok |-> FALSE]
       ELSE IF ~(\A i \in 2..6 : ParseOk(parts[i])) THEN [st |-> st, ok |-> FALSE]
       ELSE
       LET all_data_part == Join(SliceFrom(parts, 6), ":")
           systematic_data_chunks ==
               IF Contains(all_data_part, "|")
               THEN ParseRecords(Split(all_data_part, "|"), 1)
               ELSE <<>>
           source_chunks ==
               IF Contains(all_data_part, "|")
               THEN [i \in 1..Len(systematic_data_chunks) |->
                        systematic_data_chunks[i].chunk_index]
               ELSE IF Contains(all_data_part, ",")
                    THEN FilterMapParse(Split(all_data_part, ","), 1)
                    ELSE <<>>
           xor ==
               IF ~Contains(all_data_part, "|") /\ Contains(all_data_part, ",")
                  /\ Len(parts) >= 8 /\ B64DecodeOk(parts[8])
               THEN B64DecodeVal(parts[8])
               ELSE <<>>
           packet == [source_chunks |-> source_chunks,
                      xor_data |-> xor,
                      systematic_data_chunks |-> systematic_data_chunks,
                      is_systematic |-> Len(systematic_data_chunks) > 0]
           file_key == current_file_key(st, ParseVal(parts[5]))
       IN IF file_key = None THEN no_active_file(st)
          ELSE IF file_key \notin DOMAIN st.files THEN [st |-> st, ok |-> TRUE]
          ELSE LET fd1 == FileDecoder_add_packet(st.files[file_key], packet)
                   st1 == [st EXCEPT !.files[file_key] = fd1]
               IN IF FileDecoder_is_complete(fd1)
                  THEN finalize_file(st1, file_key)
                  ELSE [st |-> st1, ok |-> TRUE]

\* FountainDecoder::process_qr_code: [st, ok]
FountainDecoder_process_qr_code(st, qr_data) ==
    IF StartsWith(qr_data, "M")
    THEN FountainDecoder_process_metadata_packet(st, qr_data)
    ELSE IF StartsWith(qr_data, "D")
         THEN FountainDecoder_process_data_packet(st, qr_data)
         ELSE [st |-> st, ok |-> TRUE]

\* ------------------------------------------------------------------------
\* main.rs: QRFileDecoderIntegrated / FountainDecoderIntegrated
\* ------------------------------------------------------------------------
\* FountainDecoderIntegrated::add_packet and the systematic branch of
\* decode_qr_files.rs FountainDecoder::add_packet: no range check on the index
RECURSIVE StoreUnchecked(_, _, _)
StoreUnchecked(fd, chunks, i) ==
    IF i > Len(chunks) THEN fd
    ELSE IF chunks[i].chunk_index \notin DOMAIN fd.source_chunks
         THEN StoreUnchecked([fd EXCEPT
                  !.source_chunks = Put(@, chunks[i].chunk_index, chunks[i].chunk_data),
                  !.recovered_chunk_count = @ + 1], chunks, i + 1)
         ELSE StoreUnchecked(fd, chunks, i + 1)

FountainDecoderIntegrated_add_packet(fd, packet) ==
    StoreUnchecked(fd, packet.systematic_data_chunks, 1)

FountainDecoderIntegrated_is_complete(fd) ==
    fd.recovered_chunk_count >= fd.total_chunks

\* FountainDecoderIntegrated::finalize applied to the decoder st.files[key]
FountainDecoderIntegrated_finalize(st, key) ==
    LET fd == st.files[key]
    IN IF ~FountainDecoderIntegrated_is_complete(fd) THEN st
       ELSE WriteFile(st, key,
                      Truncate(ConcatChunks(fd.source_chunks, 0, fd.total_chunks),
                               fd.metadata.file_size))

\* QRFileDecoderIntegrated::process_metadata_packet: [st, ok]
QRFileDecoderIntegrated_process_metadata_packet(st, meta_string) ==
    LET parts == Split(meta_string, ":")
    IN IF Len(parts) < 10 THEN [st |-> st, ok |-> FALSE]
       ELSE IF ~ParseOk(parts[5]) \/ ~ParseOk(parts[6])
            THEN [st |-> st, ok |-> FALSE]
            ELSE
            LET metadata == [file_name     |-> UrlDecode(parts[3]),
                             file_size     |-> ParseVal(parts[5]),
                             chunks_count  |-> ParseVal(parts[6]),
                             file_checksum |-> GetNonEmpty(parts, 13)]
                key == metadata.file_name
                files1 == IF key \in DOMAIN st.files THEN st.files
                          ELSE Put(st.files, key,
                                   [metadata |-> metadata,
                                    source_chunks |-> EmptyMap,
                                    coded_packets |-> <<>>,
                                    recovered_chunk_count |-> 0,
                                    total_chunks |-> metadata.chunks_count,
                                    is_complete |-> FALSE])
            IN [st |-> [st EXCEPT !.files = files1, !.active = key],
                ok |-> TRUE]

\* QRFileDecoderIntegrated::process_data_packet: [st, ok]
QRFileDecoderIntegrated_process_data_packet(st, data_string) ==
    LET parts == Split(data_string, ":")
    IN IF Len(parts) < 6 THEN [st |-> st, ok |-> FALSE]
       ELSE
       LET all_data_part == Join(SliceFrom(parts, 6), ":")
           systematic_data_chunks ==
               IF Len(parts) >= 7 /\ Contains(all_data_part, "|")
               THEN ParseRecords(Split(all_data_part, "|"), 1)
               ELSE <<>>
           packet == [source_chunks |->
                          [i \in 1..Len(systematic_data_chunks) |->
                              systematic_data_chunks[i].chunk_index],
                      xor_data |-> <<>>,
                      systematic_data_chunks |-> systematic_data_chunks,
                      is_systematic |-> Len(systematic_data_chunks) > 0]
       IN IF st.active = None THEN [st |-> st, ok |-> FALSE]
          ELSE IF st.active \notin DOMAIN st.files THEN [st |-> st, ok |-> FALSE]
          ELSE LET fd1 == FountainDecoderIntegrated_add_packet(st.files[st.active], packet)
                   st1 == [st EXCEPT !.files[st.active] = fd1]
               IN [st |-> FountainDecoderIntegrated_finalize(st1, st.active),
                   ok |-> TRUE]

\* QRFileDecoderIntegrated::process_qr_code: [st, ok]
QRFileDecoderIntegrated_process_qr_code(st, qr_data) ==
    IF StartsWith(qr_data, "M")
    THEN QRFileDecoderIntegrated_process_metadata_packet(st, qr_data)
    ELSE IF StartsWith(qr_data, "D")
         THEN QRFileDecoderIntegrated_process_data_packet(st, qr_data)
         ELSE [st |-> st, ok |-> FALSE]

\* ------------------------------------------------------------------------
\* decode_qr_files.rs: QRFileDecoder / FountainDecoder
\* ------------------------------------------------------------------------
\* one scan of process_coded, from the last pending packet to the first,
\* removing packets in place
RECURSIVE process_coded_scan(_, _, _)
process_coded_scan(fd, i, progress) ==
    IF i < 1 THEN [fd |-> fd, progress |-> progress]
    ELSE LET packet == fd.coded_packets[i]
             missing == MissingOf(packet.source_chunks, fd.source_chunks, 1)
         IN IF Len(missing) = 1
            THEN LET result == XorKnown(packet.xor_data, packet.source_chunks,
                                        fd.source_chunks, missing[1], 1)
                 IN process_coded_scan(
                        [fd EXCEPT !.source_chunks = Put(@, missing[1], result),
                                   !.recovered_chunk_count = @ + 1,
                                   !.coded_packets = RemoveAt(@, {i}, 1)],
                        i - 1, TRUE)
            ELSE IF Len(missing) = 0
                 THEN process_coded_scan(
                          [fd EXCEPT !.coded_packets = RemoveAt(@, {i}, 1)],
                          i - 1, progress)
                 ELSE process_coded_scan(fd, i - 1, progress)

\* FountainDecoder::process_coded (decode_qr_files.rs)
RECURSIVE process_coded(_)
process_coded(fd) ==
    LET scan == process_coded_scan(fd, Len(fd.coded_packets), FALSE)
    IN IF scan.progress THEN process_coded(scan.fd) ELSE scan.fd

\* FountainDecoder::add_packet (decode_qr_files.rs); has_xor is
\* packet.xor_data.is_some()
FountainDecoder_add_packet(fd, packet) ==
    IF Len(packet.systematic_data_chunks) > 0
    THEN StoreUnchecked(fd, packet.systematic_data_chunks, 1)
    ELSE IF packet.has_xor
         THEN process_coded([fd EXCEPT !.coded_packets = Append(@, packet)])
         ELSE fd

\* FountainDecoder::is_complete (decode_qr_files.rs)
FountainDecoder_is_complete(fd) == fd.recovered_chunk_count >= fd.total_chunks

\* FountainDecoder::calculate_checksum: the first eight hex digits, no padding
calculate_checksum(data) ==
    LET hex == FormatHex(Fnv1a32(data))
    IN HexStr(SubSeq(hex, 1, IF Len(hex) < 8 THEN Len(hex) ELSE 8))

\* FountainDecoder::finalize (decode_qr_files.rs) applied to st.files[key]
FountainDecoder_finalize(st, key) ==
    LET fd == st.files[key]
        file_data == Truncate(ConcatChunks(fd.source_chunks, 0, fd.total_chunks),
                              fd.metadata.file_size)
    IN IF ~FountainDecoder_is_complete(fd) THEN st
       ELSE IF \E i \in 0..(fd.total_chunks - 1) : i \notin DOMAIN fd.source_chunks
            THEN st
            ELSE IF fd.metadata.file_checksum # None
                    /\ calculate_checksum(file_data) # fd.metadata.file_checksum
                 THEN st
                 ELSE WriteFile(st, key, file_data)

\* the records of a systematic body as QRFileDecoder::process_data_packet
\* reads them: [ok, chunks]; a record whose index does not parse fails the
\* whole packet, an empty or undecodable payload skips the record
RECURSIVE ParseRecordsStrict(_, _)
ParseRecordsStrict(records, i) ==
    IF i > Len(records) THEN [ok |-> TRUE, chunks |-> <<>>]
    ELSE LET chunk_parts == SplitN2(records[i], ":")
             rest == ParseRecordsStrict(records, i + 1)
         IN IF Len(chunk_parts) # 2 THEN rest
            ELSE IF ~ParseOk(chunk_parts[1]) THEN [ok |-> FALSE, chunks |-> <<>>]
            ELSE IF Len(chunk_parts[2]) > 0 /\ B64DecodeOk(chunk_parts[2])
                 THEN [ok |-> rest.ok,
                       chunks |-> <<[chunk_index |-> ParseVal(chunk_parts[1]),
                                     chunk_data  |-> B64DecodeVal(chunk_parts[2])]>>
                                  \o rest.chunks]
                 ELSE rest

\* QRFileDecoder::process_metadata_packet: [st, ok]
QRFileDecoder_process_metadata_packet(st, meta_string) ==
    QRFileDecoderIntegrated_process_metadata_packet(st, meta_string)

\* QRFileDecoder::process_data_packet: [st, ok]
QRFileDecoder_process_data_packet(st, data_string) ==
    LET parts == Split(data_string, ":")
    IN IF Len(parts) < 6 THEN [st |-> st, ok |-> FALSE]
       ELSE IF ~ParseOk(parts[2]) THEN [st |-> st, ok |-> FALSE]
       ELSE IF Len(parts) >= 7 /\ ~ParseOk(parts[6]) THEN [st |-> st, ok |-> FALSE]
       ELSE
       LET all_data_part == Join(SliceFrom(parts, 6), ":")
           is_sys == Len(parts) >= 7 /\ Contains(all_data_part, "|")
           is_coded == Len(parts) >= 7 /\ ~is_sys /\ Contains(all_data_part, ",")
           recs == IF is_sys THEN ParseRecordsStrict(Split(all_data_part, "|"), 1)
                   ELSE [ok |-> TRUE, chunks |-> <<>>]
           items == IF is_coded THEN Split(all_data_part, ",") ELSE <<>>
           has_xor == is_coded /\ Len(parts) >= 8 /\ B64DecodeOk(parts[8])
           packet == [source_chunks |->
                          IF is_sys
                          THEN [i \in 1..Len(recs.chunks) |-> recs.chunks[i].chunk_index]
                          ELSE FilterMapParse(items, 1),
                      xor_data |-> IF has_xor THEN B64DecodeVal(parts[8]) ELSE <<>>,
                      has_xor |-> has_xor,
                      systematic_data_chunks |-> recs.chunks,
                      is_systematic |-> Len(recs.chunks) > 0]
       IN IF ~recs.ok THEN [st |-> st, ok |-> FALSE]
          ELSE IF \E i \in 1..Len(items) : ~ParseOk(items[i])
               THEN [st |-> st, ok |-> FALSE]
          ELSE IF st.active = None THEN [st |-> st, ok |-> FALSE]
          ELSE IF st.active \notin DOMAIN st.files THEN [st |-> st, ok |-> FALSE]
          ELSE LET fd1 == FountainDecoder_add_packet(st.files[st.active], packet)
                   st1 == [st EXCEPT !.files[st.active] = fd1]
               IN [st |-> FountainDecoder_finalize(st1, st.active), ok |-> TRUE]

\* QRFileDecoder::process_qr_code: [st, ok]
QRFileDecoder_process_qr_code(st, qr_data) ==
    IF StartsWith(qr_data, "M")
    THEN QRFileDecoder_process_metadata_packet(st, qr_data)
    ELSE IF StartsWith(qr_data, "D")
         THEN QRFileDecoder_process_data_packet(st, qr_data)
         ELSE [st |-> st, ok |-> FALSE]

\* ------------------------------------------------------------------------
\* file_reconstruction.rs: FileReconstructor (phase 3)
\* ------------------------------------------------------------------------
\* FileReconstructor::parse_metadata: [ok, metadata]; the checksum is read from
\* parts[6]
parse_metadata(qr_data) ==
    LET parts == Split(qr_data, ":")
    IN IF Len(parts) < 6 \/ ~ParseOk(parts[5]) \/ ~ParseOk(parts[6])
       THEN [ok |-> FALSE, metadata |-> <<>>]
       ELSE [ok |-> TRUE,
             metadata |-> [file_name     |-> UrlDecode(parts[3]),
                           file_size     |-> ParseVal(parts[5]),
                           chunks_count  |-> ParseVal(parts[6]),
                           file_checksum |-> IF Len(parts) > 6 /\ Len(parts[7]) > 0
                                             THEN parts[7] ELSE None]]

\* parts[1].len() == 8 && parts[1].chars().all(|c| c.is_ascii_hexdigit())
IsHex8(f) ==
    /\ Len(f) = 1
    /\ \/ f[1].t = "hex" /\ Len(f[1].v) = 8
       \/ f[1].t = "num" /\ f[1].v[1] >= 10000000 /\ f[1].v[1] <= 99999999

\* FileReconstructor::fix_base64_padding followed by STANDARD.decode
FixedDecodeOk(f) == B64DecodeOk(f) \/ (Len(f) = 1 /\ f[1].t = "b64u")

\* the records loop of FileReconstructor::process_data_packet: every decodable
\* record with an index below chunks_count is inserted, replacing what is held
RECURSIVE InsertRecords(_, _, _)
InsertRecords(fd, records, i) ==
    IF i > Len(records) THEN fd
    ELSE LET chunk_parts == SplitN2(records[i], ":")
         IN IF Len(chunk_parts) = 2 /\ ParseOk(chunk_parts[1])
               /\ FixedDecodeOk(chunk_parts[2])
               /\ ParseVal(chunk_parts[1]) < fd.metadata.chunks_count
            THEN InsertRecords(
                     [fd EXCEPT !.source_chunks =
                         Put([k \in DOMAIN @ \ {ParseVal(chunk_parts[1])} |-> @[k]],
                             ParseVal(chunk_parts[1]),
                             B64DecodeVal(chunk_parts[2]))],
                     records, i + 1)
            ELSE InsertRecords(fd, records, i + 1)

\* FileReconstructor::process_data_packet on one file decoder: [fd, ok]
FileReconstructor_process_data_packet(fd, qr_data) ==
    LET parts == Split(qr_data, ":")
        data_field_offset == IF Len(parts) >= 8 /\ IsHex8(parts[2]) THEN 7 ELSE 6
    IN IF Len(parts) < 7 THEN [fd |-> fd, ok |-> FALSE]
       ELSE IF Len(parts) <= data_field_offset THEN [fd |-> fd, ok |-> TRUE]
       ELSE LET all_data_part == Join(SliceFrom(parts, data_field_offset), ":")
                fd1 == InsertRecords(fd, Split(all_data_part, "|"), 1)
                n   == Cardinality(DOMAIN fd1.source_chunks)
            IN [fd |-> [fd1 EXCEPT !.recovered_chunk_count = n,
                                   !.is_complete = @ \/ n >= fd1.metadata.chunks_count],
                ok |-> TRUE]

\* format!("file_{:03}_{}", file_counter, file_name)
FileKey(counter, file_name) == <<Tok("file_", <<counter>>)>> \o file_name

\* one iteration of the loop of FileReconstructor::route_qr_data_to_files:
\* [st, ok]; st.active is current_file_name
route_qr_data_to_files(st, qr_data) ==
    IF StartsWith(qr_data, "M")
    THEN LET m == parse_metadata(qr_data)
         IN IF ~m.ok THEN [st |-> st, ok |-> FALSE]
            ELSE LET file_key == FileKey(st.file_counter + 1, m.metadata.file_name)
                 IN [st |-> [st EXCEPT
                         !.file_counter = @ + 1,
                         !.files = Put(@, file_key,
                                       [metadata |-> m.metadata,
                                        source_chunks |-> EmptyMap,
                                        coded_packets |-> <<>>,
                                        recovered_chunk_count |-> 0,
                                        total_chunks |-> m.metadata.chunks_count,
                                        is_complete |-> FALSE]),
                         !.active = file_key],
                     ok |-> TRUE]
    ELSE IF StartsWith(qr_data, "D")
         THEN IF st.active = None \/ st.active \notin DOMAIN st.files
              THEN [st |-> st, ok |-> FALSE]
              ELSE LET r == FileReconstructor_process_data_packet(
                                st.files[st.active], qr_data)
                   IN [st |-> [st EXCEPT !.files[st.active] = r.fd], ok |-> r.ok]
         ELSE [st |-> st, ok |-> FALSE]

\* FileReconstructor::reconstruct_file_owned: [ok, data]
reconstruct_file_owned(fd) ==
    IF \E i \in 0..(fd.metadata.chunks_count - 1) : i \notin DOMAIN fd.source_chunks
    THEN [ok |-> FALSE, data |-> <<>>]
    ELSE [ok |-> TRUE,
          data |-> Truncate(ConcatChunks(fd.source_chunks, 0, fd.metadata.chunks_count),
                            fd.metadata.file_size)]

\* ------------------------------------------------------------------------
\* The QR payloads fed to the decoders
\* ------------------------------------------------------------------------
\* M:<version>:<filename>:<filetype>:<filesize>:<chunks>:<packets>:<maxdegree>
\*  :<density>:<fps>:<chunksize>:<redund>:<ecl>:<checksum>:<ltparams>
MkM(name, size, chunks, checksum) ==
    <<Tok("M", <<>>), Colon, Num(1), Colon, name, Colon, Tok("type", <<>>), Colon,
      Num(size), Colon, Num(chunks), Colon, Num(5), Colon, Num(1), Colon,
      Num(1), Colon, Num(30), Colon, Num(1), Colon, Num(1), Colon,
      Tok("ecl", <<>>), Colon>> \o checksum \o <<Colon>>

\* D:<packet_id>:<seed>:<seed_base>:<num_chunks>:<chunk_count>:<body>
MkD(body) ==
    <<Tok("D", <<>>), Colon, Num(1), Colon, Num(0), Colon, Num(0), Colon,
      Num(3), Colon, Num(1), Colon>> \o body

\* the bytes of the transmitted files, one byte per chunk
Content == <<1, 2, 4>>

\* the checksum field the transmitter puts in the metadata of Content
ContentChecksum == HexStr(SubSeq(Nibbles(Fnv1a32(Content)), 1, 8))

\* a checksum field that does not belong to Content
WrongChecksum == HexStr(SubSeq(Nibbles(Fnv1a32(<<1, 2>>)), 1, 8))

NameA == <<Name(1)>>

NameB == <<Name(2)>>

M_A == MkM(Name(1), 3, 3, ContentChecksum)

M_A_bad == MkM(Name(1), 3, 3, WrongChecksum)

M_A_short == MkM(Name(1), 2, 3, <<>>)

M_B == MkM(Name(2), 3, 3, <<>>)

\* a metadata payload cut after its fourth field
M_cut == <<Tok("M", <<>>), Colon, Num(1), Colon, Name(1), Colon, Tok("type", <<>>)>>

D_0 == MkD(<<Num(0), Colon, B64(<<1>>), Pipe>>)

D_1 == MkD(<<Num(1), Colon, B64(<<2>>), Pipe>>)

D_2 == MkD(<<Num(2), Colon, B64(<<4>>), Pipe>>)

D_02 == MkD(<<Num(0), Colon, B64(<<1>>), Pipe, Num(2), Colon, B64(<<4>>)>>)

\* the coded packet XOR(0,1,2): 1 ^ 2 ^ 4 = 7
D_xor == MkD(<<Num(0), Comma, Num(1), Comma, Num(2), Colon, B64(<<7>>)>>)

\* a data payload cut after its fifth field
D_cut == <<Tok("D", <<>>), Colon, Num(1), Colon, Num(0), Colon, Num(0), Colon, Num(3)>>

\* a data payload with the six prefix fields and no body
D_nobody == <<Tok("D", <<>>), Colon, Num(1), Colon, Num(0), Colon, Num(0), Colon,
              Num(3), Colon, Num(1)>>

Packets == <<M_A, M_A_bad, M_A_short, M_B, M_cut,
             D_0, D_1, D_2, D_02, D_xor, D_cut, D_nobody>>

iM_A == CHOOSE i \in 1..Len(Packets) : Packets[i] = M_A

iM_B == CHOOSE i \in 1..Len(Packets) : Packets[i] = M_B

iD_0 == CHOOSE i \in 1..Len(Packets) : Packets[i] = D_0

iD_1 == CHOOSE i \in 1..Len(Packets) : Packets[i] = D_1

iD_2 == CHOOSE i \in 1..Len(Packets) : Packets[i] = D_2

iD_02 == CHOOSE i \in 1..Len(Packets) : Packets[i] = D_02

iD_xor == CHOOSE i \in 1..Len(Packets) : Packets[i] = D_xor

\* the payloads that start with "M:"
IsM(i) == StartsWith(Packets[i], "M")

\* the data payloads that do not follow the data packet wire format
MalformedD == {i \in 1..Len(Packets) : Packets[i] \in {D_cut, D_nobody}}

\* the well-formed data payloads
GoodD == {iD_0, iD_1, iD_2, iD_02, iD_xor}

\* ------------------------------------------------------------------------
\* State
\* ------------------------------------------------------------------------
VARIABLES
    engine,      \* which decoder the run uses: "main" (decode command),
                 \* "integrated", "standalone" (decode_qr_files) or
                 \* "reconstructor" (phase 3)
    st,          \* the decoder state
    phase,       \* "feed", then "final"; "again" once phase 3 has run twice
    fed,         \* number of payloads processed
    data_phase,  \* decode command: the data packets have started
    metas,       \* number of metadata payloads processed
    orphans,     \* number of data payloads processed while no file was active
    shadow,      \* the decoder state of the same run without its malformed
                 \* data payloads
    scen,        \* length of the prefix of Scenario the run has followed
    got,         \* file key -> the well-formed data payloads processed while
                 \* that file was the active one
    announced,   \* file key -> the checksum field of the metadata payload that
                 \* created the file decoder
    written2,    \* phase 3: the output directory of the second execution
    report,      \* phase 3: final_report.files of the first execution
    report2,     \* phase 3: final_report.files of the second execution
    pipeline,    \* the chunk workflow: the run, its video, the chunk workers
                 \* and the sidecar files
    planner,     \* phase 1: the video, the splitting function applied to it,
                 \* what was asked of it and the chunk plan it made
    extractor,   \* phase 2: one worker session on one chunk and the sidecar
                 \* it writes
    input,       \* the payloads of EdgePackets processed so far, in order
    pool,        \* phase 2: the workers of the chunks, what each of them
                 \* met, the sidecars and the events reported
    parallel,    \* the frame producer, the frame queue, the consumers and the interrupt flag
    controller,  \* the resume controller: the chunks' states, the saved file, the interrupt
    tui,         \* TuiState: the message list and the events handled
    feeding,     \* the observations of a decoding path, queued and fed to the decoder
    numbering,   \* the frame numbers the workers record for the chunks
    store,       \* the file at a final path and the write that is going on
    detection,   \* the resume controller that detects the resume point of a restarted run
    realtime     \* the extraction thread, the decoding thread and the loop of process_video_realtime

vars == <<engine, st, phase, fed, data_phase, metas, orphans, shadow, scen, got,
          announced, written2, report, report2, pipeline, planner, extractor,
                   input, pool, parallel, controller, tui, feeding, numbering, store, detection, realtime>>

\* the chunk workflow of a run that only decodes
Idle ==
    [run |-> "idle", video |-> <<>>, worker |-> <<>>, start |-> <<>>,
     sidecar |-> <<>>, interrupted |-> FALSE, final |-> {}]

\* phase 1 of a run that splits no video
NoPlan == [op |-> "none", duration |-> 0, request |-> <<>>, chunks |-> <<>>]

\* phase 2 of a run that extracts nothing
NoExtractor ==
    [fn |-> "none", skip |-> 0, frame_number |-> 0, steps |-> 0, seen |-> {},
     qr_results |-> <<>>, lines |-> <<>>, open |-> FALSE, detected |-> {}]

\* no pool of chunk workers
NoPool == [fn |-> "none", max_threads |-> 0, outcome |-> <<>>, worker |-> <<>>,
           qr_results |-> <<>>, sidecar |-> <<>>, events |-> <<>>,
           processed_count |-> 0, verified_chunks |-> 0, finished |-> FALSE]

\* no frame producer and no consumers
NoParallel == [timeout_seconds |-> 0, threads |-> 0, elapsed |-> 0,
               INTERRUPTED |-> FALSE, producer |-> "none", packets |-> 0,
               frame_tx |-> 0, consumer |-> <<>>, dispatched |-> 0,
               fn |-> "none", orchestrator |-> "none", decoding |-> "none",
               background |-> "none", ExtractionComplete |-> 0]

NoController == [chunks |-> <<>>, saved |-> <<>>, INTERRUPTED |-> FALSE,
                 at_signal |-> {}, stage |-> "none"]

NoTui == [messages |-> <<>>, handled |-> 0, event |-> "none", errors |-> 0]

NoFeeding == [path |-> "none", arrival |-> <<>>, second |-> <<>>,
              queue |-> <<>>, fed |-> <<>>]

NoNumbering == [fn |-> "none", skip |-> 0, packets |-> 0, sidecar |-> <<>>,
                frames_processed |-> <<>>, observed |-> <<>>]

\* no file is being written
NoStore == [fn |-> "none", exists |-> FALSE, content |-> <<>>,
            writer |-> "none", data |-> <<>>, writes |-> 0,
            crashed |-> FALSE, complete |-> {}]

\* no resume point is being detected
NoDetection == [video |-> <<>>, sidecar |-> <<>>, mp4 |-> FALSE,
                chunks |-> <<>>, stage |-> "none", resume_point |-> "none"]

\* no extraction and decoding threads
NoRealtime == [extraction |-> "none", packets |-> 0, rx |-> <<>>,
               decoding |-> "none", main |-> "none",
               extraction_complete |-> FALSE, decoding_complete |-> FALSE]

Engines == {"main", "integrated", "standalone", "reconstructor"}

\* the input M_A, D_A0, D_A1, M_B, D_B0, D_A2 in the order the run processes
\* it: the decode command takes the metadata payloads first
Scenario ==
    IF engine = "main" THEN <<iM_A, iM_B, iD_0, iD_1, iD_0, iD_2>>
    ELSE <<iM_A, iD_0, iD_1, iM_B, iD_0, iD_2>>

Init ==
    /\ engine \in Engines
    /\ st = NewState
    /\ phase = "feed"
    /\ fed = 0
    /\ data_phase = FALSE
    /\ metas = 0
    /\ orphans = 0
    /\ shadow = NewState
    /\ scen = 0
    /\ got = EmptyMap
    /\ announced = EmptyMap
    /\ written2 = EmptyMap
    /\ report = EmptyMap
    /\ report2 = EmptyMap
    /\ input = <<>>
    /\ realtime = NoRealtime
    /\ detection = NoDetection
    /\ store = NoStore
    /\ numbering = NoNumbering
    /\ feeding = NoFeeding
    /\ tui = NoTui
    /\ controller = NoController
    /\ parallel = NoParallel
    /\ pool = NoPool
    /\ pipeline = Idle
    /\ planner = NoPlan
    /\ extractor = NoExtractor

\* one payload through the decoder of engine e: [st, ok]
EngineStep(e, s, p) ==
    CASE e = "main"          -> FountainDecoder_process_qr_code(s, p)
      [] e = "integrated"    -> QRFileDecoderIntegrated_process_qr_code(s, p)
      [] e = "standalone"    -> QRFileDecoder_process_qr_code(s, p)
      [] e = "reconstructor" -> route_qr_data_to_files(s, p)

\* the payload Packets[i] is processed by the decoder of engine e
Feed(e, i) ==
    /\ engine = e
    /\ phase = "feed"
    /\ fed < MaxStream
    /\ IsM(i) => metas < MaxFiles
    /\ st' = EngineStep(e, st, Packets[i]).st
    /\ shadow' = IF i \in MalformedD THEN shadow
                 ELSE EngineStep(e, shadow, Packets[i]).st
    /\ fed' = fed + 1
    /\ data_phase' = (data_phase \/ ~IsM(i))
    /\ metas' = IF IsM(i) THEN metas + 1 ELSE metas
    /\ orphans' = IF ~IsM(i) /\ st.active = None THEN orphans + 1 ELSE orphans
    /\ scen' = IF scen = fed /\ fed < Len(Scenario) /\ Scenario[fed + 1] = i
               THEN scen + 1 ELSE scen
    /\ got' = IF i \in GoodD /\ st.active # None
              THEN Put([k \in DOMAIN got \ {st.active} |-> got[k]], st.active,
                       (IF st.active \in DOMAIN got THEN got[st.active] ELSE {})
                           \cup {i})
              ELSE got
    /\ announced' = IF IsM(i) /\ st'.active \notin DOMAIN st.files
                        /\ st'.active \in DOMAIN st'.files
                     THEN Put(announced, st'.active,
                              GetNonEmpty(Split(Packets[i], ":"), 13))
                     ELSE announced
    /\ UNCHANGED <<engine, phase, written2, report, report2, pipeline, planner, extractor,
                   input, pool, parallel, controller, tui, feeding, numbering, store, detection, realtime>>

\* decode_command: the metadata payloads of the input are processed first,
\* then its data payloads
DecodeCommandFeed ==
    \E i \in 1..Len(Packets) : (IsM(i) => ~data_phase) /\ Feed("main", i)

\* decode_combined_jsonl: the qr_code entries in file order
IntegratedFeed == \E i \in 1..Len(Packets) : Feed("integrated", i)

\* decode_qr_files main: the QR codes in input order
StandaloneFeed == \E i \in 1..Len(Packets) : Feed("standalone", i)

\* FileReconstructor::route_qr_data_to_files: the sorted observations in order
ReconstructorRoute == \E i \in 1..Len(Packets) : Feed("reconstructor", i)

\* the orders in which a HashMap with the key set S can be iterated
Orders(S) ==
    {q \in [1..Cardinality(S) -> S] :
        \A a, b \in 1..Cardinality(S) : a # b => q[a] # q[b]}

\* FountainDecoder::finalize_all over the keys in the order keys: the first
\* file that fails to finalize ends the loop
RECURSIVE finalize_all(_, _, _)
finalize_all(s, keys, i) ==
    IF i > Len(keys) THEN s
    ELSE IF FileDecoder_is_complete(s.files[keys[i]])
         THEN LET r == finalize_file(s, keys[i])
              IN IF r.ok THEN finalize_all(r.st, keys, i + 1) ELSE r.st
         ELSE finalize_all(s, keys, i + 1)

\* finalize_remaining_files_direct over the keys in the order keys
RECURSIVE finalize_remaining_files_direct(_, _, _)
finalize_remaining_files_direct(s, keys, i) ==
    IF i > Len(keys) THEN s
    ELSE finalize_remaining_files_direct(
             FountainDecoderIntegrated_finalize(s, keys[i]), keys, i + 1)

\* finalize_all_files (decode_qr_files.rs) over the keys in the order keys
RECURSIVE finalize_all_files(_, _, _)
finalize_all_files(s, keys, i) ==
    IF i > Len(keys) THEN s
    ELSE finalize_all_files(FountainDecoder_finalize(s, keys[i]), keys, i + 1)

\* the end of decode_command
DecodeCommandFinalize ==
    /\ engine = "main"
    /\ phase = "feed"
    /\ \E keys \in Orders(DOMAIN st.files) :
          /\ st' = finalize_all(st, keys, 1)
          /\ shadow' = finalize_all(shadow, keys, 1)
    /\ phase' = "final"
    /\ UNCHANGED <<engine, fed, data_phase, metas, orphans, scen, got, announced,
                   written2, report, report2, pipeline, planner, extractor,
                   input, pool, parallel, controller, tui, feeding, numbering, store, detection, realtime>>

\* the end of decode_combined_jsonl
IntegratedFinalize ==
    /\ engine = "integrated"
    /\ phase = "feed"
    /\ \E keys \in Orders(DOMAIN st.files) :
          /\ st' = finalize_remaining_files_direct(st, keys, 1)
          /\ shadow' = finalize_remaining_files_direct(shadow, keys, 1)
    /\ phase' = "final"
    /\ UNCHANGED <<engine, fed, data_phase, metas, orphans, scen, got, announced,
                   written2, report, report2, pipeline, planner, extractor,
                   input, pool, parallel, controller, tui, feeding, numbering, store, detection, realtime>>

\* the end of decode_qr_files main
StandaloneFinalize ==
    /\ engine = "standalone"
    /\ phase = "feed"
    /\ \E keys \in Orders(DOMAIN st.files) :
          /\ st' = finalize_all_files(st, keys, 1)
          /\ shadow' = finalize_all_files(shadow, keys, 1)
    /\ phase' = "final"
    /\ UNCHANGED <<engine, fed, data_phase, metas, orphans, scen, got, announced,
                   written2, report, report2, pipeline, planner, extractor,
                   input, pool, parallel, controller, tui, feeding, numbering, store, detection, realtime>>

\* FileReconstructor::calculate_checksums and the ReconstructedFile built from
\* them: the digests stand for the bytes they are computed from
ReconstructedFile(fd, data) ==
    [qr_checksum |-> IF fd.metadata.file_checksum # None
                     THEN fd.metadata.file_checksum
                     ELSE HexStr(FormatHex(Fnv1a32(data))),
     digests     |-> data,
     size        |-> Len(data),
     file_path   |-> fd.metadata.file_name]

\* step 3 of process_combined_jsonl_files over the keys in the order keys:
\* [written, report]
RECURSIVE reconstruct_loop(_, _, _, _, _)
reconstruct_loop(files, keys, i, out, rep) ==
    IF i > Len(keys) THEN [written |-> out, report |-> rep]
    ELSE LET fd == files[keys[i]]
             r  == reconstruct_file_owned(fd)
         IN IF fd.is_complete /\ r.ok
            THEN reconstruct_loop(files, keys, i + 1,
                     Put(out, fd.metadata.file_name,
                         [data |-> r.data, by |-> keys[i]]),
                     Put(rep, keys[i], ReconstructedFile(fd, r.data)))
            ELSE reconstruct_loop(files, keys, i + 1, out, rep)

\* step 3 of process_combined_jsonl_files: the loop over
\* self.active_files.clone(), a HashMap that yields its keys in an arbitrary
\* order
Reconstruct ==
    /\ engine = "reconstructor"
    /\ phase = "feed"
    /\ \E keys \in Orders(DOMAIN st.files) :
          LET r == reconstruct_loop(st.files, keys, 1, st.written, EmptyMap)
              q == reconstruct_loop(shadow.files, keys, 1, shadow.written, EmptyMap)
          IN /\ st' = [st EXCEPT !.written = r.written]
             /\ shadow' = [shadow EXCEPT !.written = q.written]
             /\ report' = r.report
    /\ phase' = "final"
    /\ UNCHANGED <<engine, fed, data_phase, metas, orphans, scen, got, announced,
                   written2, report2, pipeline, planner, extractor,
                   input, pool, parallel, controller, tui, feeding, numbering, store, detection, realtime>>

\* the loop of process_qr_data over file_names in the order keys: the first
\* file that reconstruct_file_owned refuses ends the function with its error:
\* [written, report, ok]
RECURSIVE process_qr_data_loop(_, _, _, _, _)
process_qr_data_loop(files, keys, i, out, rep) ==
    IF i > Len(keys) THEN [written |-> out, report |-> rep, ok |-> TRUE]
    ELSE LET fd == files[keys[i]]
             r  == reconstruct_file_owned(fd)
         IN IF r.ok
            THEN process_qr_data_loop(files, keys, i + 1,
                     Put(out, fd.metadata.file_name,
                         [data |-> r.data, by |-> keys[i]]),
                     Put(rep, keys[i], ReconstructedFile(fd, r.data)))
            ELSE [written |-> out, report |-> EmptyMap, ok |-> FALSE]

\* FileReconstructor::process_qr_data after the routing: the loop over
\* file_names, the keys of a HashMap in an arbitrary order, then
\* save_final_report
ProcessQrData ==
    /\ engine = "reconstructor"
    /\ phase = "feed"
    /\ \E keys \in Orders(DOMAIN st.files) :
          LET r == process_qr_data_loop(st.files, keys, 1, st.written, EmptyMap)
              q == process_qr_data_loop(shadow.files, keys, 1, shadow.written,
                                        EmptyMap)
          IN /\ st' = [st EXCEPT !.written = r.written]
             /\ shadow' = [shadow EXCEPT !.written = q.written]
             /\ report' = r.report
             /\ phase' = IF r.ok THEN "reported" ELSE "failed"
    /\ UNCHANGED <<engine, fed, data_phase, metas, orphans, scen, got, announced,
                   written2, report2, pipeline, planner, extractor,
                   input, pool, parallel, controller, tui, feeding, numbering, store, detection, realtime>>

\* phase 3 is executed a second time on the same sidecars
ReconstructAgain ==
    /\ engine = "reconstructor"
    /\ phase = "final"
    /\ \E keys \in Orders(DOMAIN st.files) :
          LET r == reconstruct_loop(st.files, keys, 1, EmptyMap, EmptyMap)
          IN /\ written2' = r.written
             /\ report2' = r.report
    /\ phase' = "again"
    /\ UNCHANGED <<engine, st, fed, data_phase, metas, orphans, shadow, scen, got,
                   announced, report, pipeline, planner, extractor,
                   input, pool, parallel, controller, tui, feeding, numbering, store, detection, realtime>>

Next ==
    \/ DecodeCommandFeed
    \/ IntegratedFeed
    \/ StandaloneFeed
    \/ ReconstructorRoute
    \/ DecodeCommandFinalize
    \/ IntegratedFinalize
    \/ StandaloneFinalize
    \/ Reconstruct
    \/ ProcessQrData
    \/ ReconstructAgain

Spec == Init /\ [][Next]_vars

\* ------------------------------------------------------------------------
\* Temporal routing
\* ------------------------------------------------------------------------
\* the step processes the payload Packets[i]
FeedsPacket(i) ==
    /\ phase = "feed"
    /\ fed' = fed + 1
    /\ st' = EngineStep(engine, st, Packets[i]).st

\* the step processes a data payload
FeedsData == phase = "feed" /\ fed' = fed + 1 /\ metas' = metas

\* the step processes a metadata payload
FeedsMeta == phase = "feed" /\ fed' = fed + 1 /\ metas' = metas + 1

\* the keys under which the decoders of the scenario hold the files A and B
ScenarioKeyA ==
    CASE engine = "main" -> NameA \o <<Tok("_", <<>>), Num(3)>>
      [] engine = "reconstructor" -> FileKey(1, NameA)
      [] OTHER -> NameA

ScenarioKeyB ==
    CASE engine = "main" -> NameB \o <<Tok("_", <<>>), Num(3)>>
      [] engine = "reconstructor" -> FileKey(2, NameB)
      [] OTHER -> NameB

\* C1: a data packet is applied only to the decoder of the active file: the
\* step that processes it leaves every other file decoder as it was and
\* creates none; and the last packet of M_A, D_A0, D_A1, M_B, D_B0, D_A2 puts
\* its chunk into B's decoder and leaves A's decoder unchanged.
C1_TemporalRouting ==
    [][ /\ FeedsData =>
              /\ DOMAIN st'.files = DOMAIN st.files
              /\ \A k \in DOMAIN st.files :
                     k # st.active => st'.files[k] = st.files[k]
        /\ (scen = Len(Scenario) - 1 /\ scen' = Len(Scenario)) =>
              /\ st.active = ScenarioKeyB
              /\ st'.files[ScenarioKeyA] = st.files[ScenarioKeyA]
              /\ 2 \notin DOMAIN st.files[ScenarioKeyB].source_chunks
              /\ 2 \in DOMAIN st'.files[ScenarioKeyB].source_chunks
              /\ st'.files[ScenarioKeyB].source_chunks[2] = <<Content[3]>>
      ]_vars

\* the scenario of C1 has been processed to its last packet, with both
\* decoders present
C1_Witness ==
    /\ scen = Len(Scenario)
    /\ ScenarioKeyA \in DOMAIN st.files
    /\ 2 \in DOMAIN st.files[ScenarioKeyB].source_chunks
    /\ 2 \notin DOMAIN st.files[ScenarioKeyA].source_chunks

\* the file name a metadata payload announces
AnnouncedName(i) == UrlDecode(Split(Packets[i], ":")[3])

\* C2: when a metadata packet is accepted the active file becomes the file it
\* announces; every other step (a data packet, accepted or rejected, a
\* rejected metadata packet, a completion, the final pass) leaves the active
\* file as it was.
C2_ActiveFile ==
    [][ /\ FeedsMeta =>
              \A i \in 1..Len(Packets) :
                  (IsM(i) /\ FeedsPacket(i)) =>
                      IF EngineStep(engine, st, Packets[i]).ok
                      THEN /\ st'.active \in DOMAIN st'.files
                           /\ st'.files[st'.active].metadata.file_name
                                  = AnnouncedName(i)
                      ELSE st'.active = st.active
        /\ ~FeedsMeta => st'.active = st.active
      ]_vars

\* a second file became active, took a data packet and was written while it
\* stayed the active one
C2_Witness ==
    /\ Cardinality(DOMAIN st.files) >= 2
    /\ st.active \in DOMAIN st.files
    /\ st.files[st.active].metadata.file_name \in DOMAIN st.written
    /\ st.written[st.files[st.active].metadata.file_name].by = st.active
    /\ fed > metas

\* C3: a data packet processed while no file is active is rejected and
\* changes nothing: no decoder is created and no chunk is stored, and the run
\* stays in its feeding loop.
C3_OrphanData ==
    [][ (FeedsData /\ st.active = None) =>
            /\ st' = st
            /\ phase' = "feed"
            /\ \A i \in 1..Len(Packets) :
                   (~IsM(i) /\ FeedsPacket(i)) =>
                       ~EngineStep(engine, st, Packets[i]).ok
      ]_vars

\* a data packet was rejected for want of an active file, and packets after
\* it were processed: a file is active and holds a chunk
C3_Witness ==
    /\ orphans > 0
    /\ st.active \in DOMAIN st.files
    /\ DOMAIN st.files[st.active].source_chunks # {}

\* ------------------------------------------------------------------------
\* Recovery, integrity and malformed packets
\* ------------------------------------------------------------------------
\* the completeness test of the running decoder
Complete(fd) ==
    IF engine = "reconstructor" THEN fd.is_complete
    ELSE fd.recovered_chunk_count >= fd.total_chunks

\* the file k was sent systematic chunks 0 and 2, the coded packet XOR(0,1,2)
\* and never chunk 1
CodedOnlyCase(k) ==
    /\ k \in DOMAIN st.files
    /\ st.files[k].total_chunks = 3
    /\ iD_xor \in got[k]
    /\ iD_02 \in got[k] \/ {iD_0, iD_2} \subseteq got[k]
    /\ iD_1 \notin got[k]

\* C4: a file of three chunks that has been given systematic chunks 0 and 2
\* and the coded packet XOR(0,1,2) holds chunk 1 = payload ^ chunk0 ^ chunk2
\* and is complete.
C4_CodedRecovery ==
    \A k \in DOMAIN got :
        CodedOnlyCase(k) =>
            /\ 1 \in DOMAIN st.files[k].source_chunks
            /\ st.files[k].source_chunks[1]
                   = <<BitXor(BitXor(7, Content[1]), Content[3])>>
            /\ Complete(st.files[k])

\* the source-chunk index sets of the packets in S, as transmitted
IndexSets(S) ==
    UNION { CASE i = iD_0 -> {{0}}
              [] i = iD_1 -> {{1}}
              [] i = iD_2 -> {{2}}
              [] i = iD_02 -> {{0}, {2}}
              [] i = iD_xor -> {{0, 1, 2}}
              [] OTHER -> {} : i \in S }

RECURSIVE SymDiffAll(_)
\* the XOR of a set of equations: the indices that occur an odd number of times
SymDiffAll(T) ==
    IF T = {} THEN {}
    ELSE LET e == CHOOSE x \in T : TRUE
             r == SymDiffAll(T \ {e})
         IN (e \ r) \cup (r \ e)

\* the XOR equations of S determine every chunk 0..n-1
UniqueSolution(S, n) ==
    \A c \in 0..(n - 1) :
        \E T \in SUBSET IndexSets(S) : SymDiffAll(T) = {c}

\* C5: when the packets received for a file determine its chunks uniquely,
\* the decoder holds every chunk of the file with its transmitted value.
C5_UniqueSolutionRecovered ==
    \A k \in DOMAIN got :
        (k \in DOMAIN st.files /\ st.files[k].total_chunks = Len(Content)
             /\ UniqueSolution(got[k], Len(Content))) =>
            \A c \in 0..(Len(Content) - 1) :
                /\ c \in DOMAIN st.files[k].source_chunks
                /\ st.files[k].source_chunks[c] = <<Content[c + 1]>>

\* fnv1a32(bytes)[:8] in lowercase hex equals the checksum field cs
ChecksumMatches(data, cs) ==
    \/ cs = HexStr(SubSeq(Nibbles(Fnv1a32(data)), 1, 8))
    \/ cs = HexStr(FormatHex(Fnv1a32(data)))

\* C6: every file in the output directory whose metadata carries a checksum
\* has bytes whose FNV-1a checksum equals it.
C6_WrittenMatchesChecksum ==
    \A n \in DOMAIN st.written :
        LET w == st.written[n]
        IN announced[w.by] # None => ChecksumMatches(w.data, announced[w.by])

\* the bytes the decoder fd assembles from its chunks
Assembled(fd) ==
    Truncate(ConcatChunks(fd.source_chunks, 0, fd.total_chunks),
             fd.metadata.file_size)

\* C7: a file whose reconstructed bytes do not match the checksum of its
\* metadata is not written.
C7_MismatchNotWritten ==
    \A k \in DOMAIN st.files :
        LET fd == st.files[k]
        IN (/\ announced[k] # None
            /\ \A c \in 0..(fd.total_chunks - 1) : c \in DOMAIN fd.source_chunks
            /\ ~ChecksumMatches(Assembled(fd), announced[k])) =>
               ~(/\ fd.metadata.file_name \in DOMAIN st.written
                 /\ st.written[fd.metadata.file_name].by = k)

\* C8: the decoder state of a run equals the state of the same run with its
\* malformed data packets left out: a malformed data packet changes nothing
\* and the packets around it are processed as if it were absent.
C8_MalformedIgnored == st = shadow

\* ------------------------------------------------------------------------
\* Phase 3 run twice
\* ------------------------------------------------------------------------
\* the bytes of the files of an output directory, by file name
FileBytes(w) == [n \in DOMAIN w |-> w[n].data]

\* C10: two runs of phase 3 over the same merged observation stream leave
\* byte-identical files in the output directory and produce identical
\* integrity reports.
C10_Phase3Idempotent ==
    phase = "again" =>
        /\ FileBytes(written2) = FileBytes(st.written)
        /\ report2 = report

\* ------------------------------------------------------------------------
\* The resumable chunk workflow
\* ------------------------------------------------------------------------
decoder_vars == <<engine, st, phase, fed, data_phase, metas, orphans, shadow,
                  scen, got, announced, written2, report, report2, input>>

\* the videos of the runs; the durations are multiples of the chunk count
Videos ==
    { [total_duration |-> d, frame_rate |-> 10, chunk_count |-> 2,
       skip_frames |-> s] : d \in {50, 100}, s \in {0, 1} }

\* the numbers of lines that reach a sidecar in one write of the buffered
\* writer
FlushLines == {100, 150}

ChunkIds(v) == 0..(v.chunk_count - 1)

Min2(a, b) == IF a <= b THEN a ELSE b

calculate_expected_frames(v, chunk_id) ==
    LET chunk_duration == v.total_duration \div v.chunk_count
    IN IF chunk_id = v.chunk_count - 1
       THEN (v.total_duration - chunk_duration * chunk_id) * v.frame_rate
       ELSE chunk_duration * v.frame_rate

\* the frames the worker decodes between the frames lo and hi - 1 of a chunk:
\* every (skip_frames + 1)-th frame
FramesIn(v, lo, hi) ==
    { f \in lo..(hi - 1) : f % (v.skip_frames + 1) = 0 }

NoSidecar == [exists |-> FALSE, lo |-> 0, hi |-> 0]

\* a sidecar holds one line per decoded frame from lo to hi - 1
FullSidecar(v, c) ==
    [exists |-> TRUE, lo |-> 0, hi |-> calculate_expected_frames(v, c)]

\* [actual_frames, qr_codes, max_frame, min_frame] of a sidecar
analyze_jsonl_content(v, sc) ==
    LET frames == FramesIn(v, sc.lo, sc.hi)
    IN [actual_frames |-> Cardinality(frames),
        qr_codes      |-> Cardinality(frames),
        max_frame     |-> IF frames = {} THEN 0
                          ELSE CHOOSE f \in frames : \A g \in frames : g <= f,
        min_frame     |-> IF frames = {} THEN 0
                          ELSE CHOOSE f \in frames : \A g \in frames : f <= g]

determine_completion(v, chunk_id, expected_frames, a) ==
    LET expected_max_frame ==
            IF v.skip_frames > 0 THEN expected_frames \div (v.skip_frames + 1)
            ELSE expected_frames
        frame_range_ok ==
            expected_max_frame > 0 /\ a.max_frame * 100 >= 90 * expected_max_frame
        expected_min_qr_codes ==
            IF chunk_id = v.chunk_count - 1 THEN 200 ELSE 300
        has_sufficient_qr_codes == a.qr_codes >= expected_min_qr_codes
        frame_span ==
            IF a.max_frame >= a.min_frame THEN a.max_frame - a.min_frame ELSE 0
        has_good_frame_span == frame_span >= (expected_max_frame * 80) \div 100
    IN \/ /\ a.actual_frames * 100 >= 95 * expected_frames
          /\ frame_range_ok
          /\ has_sufficient_qr_codes
          /\ has_good_frame_span
       \/ /\ a.actual_frames * 100 >= 80 * expected_frames
          /\ has_sufficient_qr_codes

\* [should_resume, resume_from_frame]
get_chunk_resume_point(v, sidecars, chunk_id) ==
    LET expected_frames == calculate_expected_frames(v, chunk_id)
        sc == sidecars[chunk_id]
        a  == analyze_jsonl_content(v, sc)
        resume_frame == a.max_frame + 1
        skip_interval == v.skip_frames + 1
    IN IF ~sc.exists
       THEN [should_resume |-> TRUE, resume_from_frame |-> 0]
       ELSE IF determine_completion(v, chunk_id, expected_frames, a)
       THEN [should_resume |-> FALSE, resume_from_frame |-> a.max_frame + 1]
       ELSE [should_resume |-> TRUE,
             resume_from_frame |->
                 IF v.skip_frames > 0
                 THEN ((resume_frame + skip_interval - 1) \div skip_interval)
                          * skip_interval
                 ELSE resume_frame]

\* The video of the runs carries one file: its metadata code is in frame 0 of
\* chunk 0 and every other decoded frame carries one systematic chunk of it,
\* none of them twice.  Phase 3 over the sidecars creates the decoder when it
\* reads the metadata line and writes the file when every chunk has been read.
process_combined_jsonl_files(v, sidecars) ==
    IF \A c \in ChunkIds(v) :
           /\ sidecars[c].exists
           /\ FramesIn(v, sidecars[c].lo, sidecars[c].hi)
                  = FramesIn(v, 0, calculate_expected_frames(v, c))
    THEN {NameA}
    ELSE {}

ResumeInit ==
    /\ engine = "reconstructor"
    /\ st = NewState
    /\ phase = "feed"
    /\ fed = 0
    /\ data_phase = FALSE
    /\ metas = 0
    /\ orphans = 0
    /\ shadow = NewState
    /\ scen = 0
    /\ got = EmptyMap
    /\ announced = EmptyMap
    /\ written2 = EmptyMap
    /\ report = EmptyMap
    /\ report2 = EmptyMap
    /\ input = <<>>
    /\ realtime = NoRealtime
    /\ detection = NoDetection
    /\ store = NoStore
    /\ numbering = NoNumbering
    /\ feeding = NoFeeding
    /\ tui = NoTui
    /\ controller = NoController
    /\ parallel = NoParallel
    /\ pool = NoPool
    /\ \E v \in Videos :
          pipeline = [run         |-> "first",
                      video       |-> v,
                      worker      |-> [c \in ChunkIds(v) |-> "queued"],
                      start       |-> [c \in ChunkIds(v) |-> 0],
                      sidecar     |-> [c \in ChunkIds(v) |-> NoSidecar],
                      interrupted |-> FALSE,
                      final       |-> {}]
    /\ planner = NoPlan
    /\ extractor = NoExtractor

Running == pipeline.run \in {"first", "resumed"}

\* a worker decodes the frames of its chunk from its start frame on and keeps
\* the codes in memory
ExtractChunk(c) ==
    /\ Running
    /\ pipeline.worker[c] = "queued"
    /\ pipeline' = [pipeline EXCEPT !.worker[c] = "extracted"]
    /\ UNCHANGED <<decoder_vars, planner, extractor, pool, parallel, controller, tui, feeding, numbering, store, detection, realtime>>

\* save_chunk_to_jsonl: File::create makes the sidecar or empties it
SaveCreate(c) ==
    /\ Running
    /\ pipeline.worker[c] = "extracted"
    /\ pipeline' = [pipeline EXCEPT
                       !.worker[c] = "writing",
                       !.sidecar[c] = [exists |-> TRUE,
                                       lo |-> pipeline.start[c],
                                       hi |-> pipeline.start[c]]]
    /\ UNCHANGED <<decoder_vars, planner, extractor, pool, parallel, controller, tui, feeding, numbering, store, detection, realtime>>

\* save_chunk_to_jsonl: the buffered writer passes lines on to the file, the
\* last of them at flush
SaveWrite(c) ==
    /\ Running
    /\ pipeline.worker[c] = "writing"
    /\ \E n \in FlushLines :
          LET v    == pipeline.video
              last == calculate_expected_frames(v, c)
              hi   == pipeline.sidecar[c].hi
              to   == IF hi >= last THEN hi
                      ELSE Min2(hi + n * (v.skip_frames + 1), last)
          IN pipeline' = [pipeline EXCEPT
                             !.sidecar[c].hi = to,
                             !.worker[c] = IF to >= last THEN "done"
                                           ELSE "writing"]
    /\ UNCHANGED <<decoder_vars, planner, extractor, pool, parallel, controller, tui, feeding, numbering, store, detection, realtime>>

\* the run is stopped, at any point of phase 2
Interrupt ==
    /\ pipeline.run = "first"
    /\ pipeline' = [pipeline EXCEPT !.run = "stopped", !.interrupted = TRUE]
    /\ UNCHANGED <<decoder_vars, planner, extractor, pool, parallel, controller, tui, feeding, numbering, store, detection, realtime>>

\* the restart with the resume flag: every chunk gets its resume point;
\* complete chunks are skipped, the others restart at their resume frame
Resume ==
    /\ pipeline.run = "stopped"
    /\ LET v  == pipeline.video
           rp == [c \in ChunkIds(v) |->
                      get_chunk_resume_point(v, pipeline.sidecar, c)]
       IN pipeline' = [pipeline EXCEPT
                          !.run = "resumed",
                          !.worker = [c \in ChunkIds(v) |->
                                         IF rp[c].should_resume THEN "queued"
                                         ELSE "skipped"],
                          !.start = [c \in ChunkIds(v) |->
                                        rp[c].resume_from_frame]]
    /\ UNCHANGED <<decoder_vars, planner, extractor, pool, parallel, controller, tui, feeding, numbering, store, detection, realtime>>

\* phase 3 runs on the sidecars once no chunk is left to extract
Phase3 ==
    /\ Running
    /\ \A c \in ChunkIds(pipeline.video) :
           pipeline.worker[c] \in {"done", "skipped"}
    /\ pipeline' = [pipeline EXCEPT
                       !.run = "finished",
                       !.final = process_combined_jsonl_files(pipeline.video,
                                                              pipeline.sidecar)]
    /\ UNCHANGED <<decoder_vars, planner, extractor, pool, parallel, controller, tui, feeding, numbering, store, detection, realtime>>

ResumeNext ==
    \/ \E c \in ChunkIds(pipeline.video) : ExtractChunk(c)
    \/ \E c \in ChunkIds(pipeline.video) : SaveCreate(c)
    \/ \E c \in ChunkIds(pipeline.video) : SaveWrite(c)
    \/ Interrupt
    \/ Resume
    \/ Phase3

ResumeSpec == ResumeInit /\ [][ResumeNext]_vars

\* the files of a run of the same video that is never stopped
UninterruptedFiles ==
    process_combined_jsonl_files(pipeline.video,
        [c \in ChunkIds(pipeline.video) |-> FullSidecar(pipeline.video, c)])

\* C9: a run that was stopped at some point and restarted with the resume
\* flag ends with the same reconstructed files as a run of the same video
\* that was never stopped.
C9_ResumeConvergence ==
    (pipeline.run = "finished" /\ pipeline.interrupted) =>
        pipeline.final = UninterruptedFiles

\* ------------------------------------------------------------------------
\* Phase 1: the chunk plan
\* ------------------------------------------------------------------------
\* Times are counted in ticks, TicksPerSecond to the second, so that the
\* quotients the planners compute are whole numbers of ticks.
TicksPerSecond == 3 * 4

\* the durations of the videos, in seconds
VideoSeconds == 1..4

\* the chunk counts asked for
ChunkCounts == 1..4

\* the durations per chunk asked for, in ticks
ChunkDurations == {6, 12, 18, 60}

\* the times at which the analysis may have found a file boundary, in ticks
MarkerTimes(duration) == { t \in 0..duration : t % 6 = 0 }

VideoChunk(start_time, end_time) ==
    [start_time |-> start_time, duration |-> end_time - start_time,
     end_time |-> end_time]

RECURSIVE split_by_count_from(_, _, _)
\* the loop of split_by_count from chunk i on
split_by_count_from(duration, chunk_count, i) ==
    IF i >= chunk_count THEN <<>>
    ELSE LET chunk_duration == duration \div chunk_count
             start_time == i * chunk_duration
             end_time == IF i = chunk_count - 1 THEN duration
                         ELSE (i + 1) * chunk_duration
         IN <<VideoChunk(start_time, end_time)>>
                \o split_by_count_from(duration, chunk_count, i + 1)

split_by_count(duration, chunk_count) ==
    split_by_count_from(duration, chunk_count, 0)

\* (a / b).ceil()
CeilDiv(a, b) == (a + b - 1) \div b

RECURSIVE split_by_duration_from(_, _, _, _)
\* the loop of split_by_duration from chunk i on
split_by_duration_from(duration, duration_per_chunk, chunk_count, i) ==
    IF i >= chunk_count THEN <<>>
    ELSE LET start_time == i * duration_per_chunk
             end_time == Min2((i + 1) * duration_per_chunk, duration)
         IN <<VideoChunk(start_time, end_time)>>
                \o split_by_duration_from(duration, duration_per_chunk,
                                          chunk_count, i + 1)

split_by_duration(duration, duration_per_chunk) ==
    split_by_duration_from(duration, duration_per_chunk,
                           CeilDiv(duration, duration_per_chunk), 0)

Distance(a, b) == IF a >= b THEN a - b ELSE b - a

\* the marker time closest to target_time, the earliest of them when two are
\* equally close
find_nearest_file_boundary(file_markers, target_time) ==
    IF file_markers = {} THEN target_time
    ELSE CHOOSE m \in file_markers :
             \A o \in file_markers :
                 \/ Distance(m, target_time) < Distance(o, target_time)
                 \/ Distance(m, target_time) = Distance(o, target_time) /\ m <= o

RECURSIVE SortedSeq(_)
\* split_points.sort_by
SortedSeq(S) ==
    IF S = {} THEN <<>>
    ELSE LET m == CHOOSE x \in S : \A y \in S : x <= y
         IN <<m>> \o SortedSeq(S \ {m})

\* the split points for num_chunks_needed chunks; one chunk needs none
calculate_split_points_with_size(file_markers, duration, num_chunks_needed) ==
    LET chunk_duration == duration \div num_chunks_needed
    IN SortedSeq({ find_nearest_file_boundary(file_markers, i * chunk_duration) :
                       i \in 1..(num_chunks_needed - 1) })

RECURSIVE numbered_chunks_from(_, _, _, _)
\* the loop of split_video_into_numbered_chunks and its final chunk
numbered_chunks_from(split_points, i, previous_time, total_duration) ==
    IF i > Len(split_points)
    THEN IF total_duration - previous_time > TicksPerSecond
         THEN <<VideoChunk(previous_time, total_duration)>>
         ELSE <<>>
    ELSE <<VideoChunk(previous_time, split_points[i])>>
             \o numbered_chunks_from(split_points, i + 1, split_points[i],
                                     total_duration)

split_video_into_numbered_chunks(split_points, start_offset, total_duration) ==
    numbered_chunks_from(split_points, 1, start_offset, total_duration)

PlanInit ==
    /\ engine = "reconstructor"
    /\ st = NewState
    /\ phase = "feed"
    /\ fed = 0
    /\ data_phase = FALSE
    /\ metas = 0
    /\ orphans = 0
    /\ shadow = NewState
    /\ scen = 0
    /\ got = EmptyMap
    /\ announced = EmptyMap
    /\ written2 = EmptyMap
    /\ report = EmptyMap
    /\ report2 = EmptyMap
    /\ input = <<>>
    /\ realtime = NoRealtime
    /\ detection = NoDetection
    /\ store = NoStore
    /\ numbering = NoNumbering
    /\ feeding = NoFeeding
    /\ tui = NoTui
    /\ controller = NoController
    /\ parallel = NoParallel
    /\ pool = NoPool
    /\ pipeline = Idle
    /\ \E d \in VideoSeconds :
          planner = [op |-> "video", duration |-> d * TicksPerSecond,
                     request |-> <<>>, chunks |-> <<>>]
    /\ extractor = NoExtractor

SplitByCount ==
    /\ planner.op = "video"
    /\ \E n \in ChunkCounts :
          planner' = [planner EXCEPT
                         !.op = "split_by_count",
                         !.request = <<n>>,
                         !.chunks = split_by_count(planner.duration, n)]
    /\ UNCHANGED <<decoder_vars, pipeline, extractor, pool, parallel, controller, tui, feeding, numbering, store, detection, realtime>>

SplitByDuration ==
    /\ planner.op = "video"
    /\ \E d \in ChunkDurations :
          planner' = [planner EXCEPT
                         !.op = "split_by_duration",
                         !.request = <<d>>,
                         !.chunks = split_by_duration(planner.duration, d)]
    /\ UNCHANGED <<decoder_vars, pipeline, extractor, pool, parallel, controller, tui, feeding, numbering, store, detection, realtime>>

\* split_and_process_parallel: the split points of the analysis, then the
\* numbered chunks, from the start of the video
SplitNumbered ==
    /\ planner.op = "video"
    /\ \E file_markers \in SUBSET MarkerTimes(planner.duration), n \in ChunkCounts :
          planner' = [planner EXCEPT
                         !.op = "split_video_into_numbered_chunks",
                         !.request = <<file_markers, n>>,
                         !.chunks = split_video_into_numbered_chunks(
                                        calculate_split_points_with_size(
                                            file_markers, planner.duration, n),
                                        0, planner.duration)]
    /\ UNCHANGED <<decoder_vars, pipeline, extractor, pool, parallel, controller, tui, feeding, numbering, store, detection, realtime>>

PlanNext ==
    \/ SplitByCount
    \/ SplitByDuration
    \/ SplitNumbered

PlanSpec == PlanInit /\ [][PlanNext]_vars

\* the ticks of the interval [start_time, end_time) of a chunk
Ticks(chunk) == chunk.start_time..(chunk.end_time - 1)

\* C11: the intervals of a chunk plan are pairwise disjoint and their union
\* is [0, duration).
C11_PlanCoversVideo ==
    planner.op \notin {"none", "video"} =>
        /\ \A i, j \in 1..Len(planner.chunks) :
               i # j => Ticks(planner.chunks[i]) \cap Ticks(planner.chunks[j]) = {}
        /\ UNION { Ticks(planner.chunks[i]) : i \in 1..Len(planner.chunks) }
               = 0..(planner.duration - 1)

\* ------------------------------------------------------------------------
\* Phase 2: one worker session on one chunk
\* ------------------------------------------------------------------------
\* the packets, or frame files, of a chunk
MaxPackets == 4

\* the codes one frame can show, in the order the detector returns them
CodeLists == {<<>>, <<1>>, <<2>>, <<1, 2>>, <<3>>}

\* the frames the video decoder may hand back for one packet
FrameLists ==
    {<<>>} \cup { <<a>> : a \in CodeLists }
           \cup { <<a, b>> : a \in CodeLists, b \in CodeLists }

\* frame skip of the command line (1 = all frames)
Skips == {1, 2}

QrLine(frame_number, data) ==
    [type |-> "qr_code", frame_number |-> frame_number, data |-> data]

\* the detector has returned the code for the current frame (a record of
\* the run, kept for the properties)
Detect(x, code) ==
    [x EXCEPT !.detected =
                  @ \cup {[frame_number |-> x.frame_number, data |-> code]}]

RECURSIVE write_new_codes(_, _, _)
\* the loop over frame_qr_codes in extract_chunk_to_jsonl and in
\* extract_streaming: a code not seen before is written with the current
\* frame number
write_new_codes(x, codes, i) ==
    IF i > Len(codes) THEN x
    ELSE IF codes[i] \in x.seen
    THEN write_new_codes(Detect(x, codes[i]), codes, i + 1)
    ELSE write_new_codes(
             [Detect(x, codes[i]) EXCEPT
                       !.seen = @ \cup {codes[i]},
                       !.lines = Append(@, QrLine(x.frame_number, codes[i]))],
             codes, i + 1)

RECURSIVE receive_frames(_, _, _)
\* the loop over decoder.receive_frame
receive_frames(x, frames, i) ==
    IF i > Len(frames) THEN x
    ELSE receive_frames(write_new_codes(x, frames[i], 1), frames, i + 1)

wrap_frame_number(x) == [x EXCEPT !.frame_number = (@ + 1) % 2]

next_frame_number(x) == [x EXCEPT !.frame_number = @ + 1]

\* one turn of the loop over context.packets()
extract_chunk_packet(x, is_video, send_ok, frames) ==
    IF ~is_video THEN x
    ELSE IF x.frame_number % x.skip = 0
    THEN IF send_ok THEN next_frame_number(receive_frames(x, frames, 1))
         ELSE next_frame_number(x)
    ELSE next_frame_number(x)

RECURSIVE push_codes(_, _, _, _)
\* the loop over qr_codes in extract_qr_simple_external
push_codes(qr_results, frame_idx, codes, i) ==
    IF i > Len(codes) THEN qr_results
    ELSE push_codes(Append(qr_results, QrLine(frame_idx, codes[i])),
                    frame_idx, codes, i + 1)

ExtractInit ==
    /\ engine = "reconstructor"
    /\ st = NewState
    /\ phase = "feed"
    /\ fed = 0
    /\ data_phase = FALSE
    /\ metas = 0
    /\ orphans = 0
    /\ shadow = NewState
    /\ scen = 0
    /\ got = EmptyMap
    /\ announced = EmptyMap
    /\ written2 = EmptyMap
    /\ report = EmptyMap
    /\ report2 = EmptyMap
    /\ input = <<>>
    /\ realtime = NoRealtime
    /\ detection = NoDetection
    /\ store = NoStore
    /\ numbering = NoNumbering
    /\ feeding = NoFeeding
    /\ tui = NoTui
    /\ controller = NoController
    /\ parallel = NoParallel
    /\ pool = NoPool
    /\ pipeline = Idle
    /\ planner = NoPlan
    /\ \E f \in {"extract_chunk_to_jsonl", "extract_streaming",
                  "extract_from_chunks"}, k \in Skips :
          extractor = [fn |-> f, skip |-> k, frame_number |-> 0, steps |-> 0,
                       seen |-> {}, qr_results |-> <<>>, lines |-> <<>>,
                       open |-> FALSE, detected |-> {}]

\* extract_chunk_to_jsonl, extract_streaming: File::create and the header
\* line
WriteHeader ==
    /\ extractor.fn \in {"extract_chunk_to_jsonl", "extract_streaming"}
    /\ ~extractor.open
    /\ extractor.lines = <<>>
    /\ extractor' = [extractor EXCEPT
                        !.open = TRUE,
                        !.lines = <<[type |-> "header", frame_number |-> 0,
                                     data |-> 0]>>]
    /\ UNCHANGED <<decoder_vars, pipeline, planner, pool, parallel, controller, tui, feeding, numbering, store, detection, realtime>>

\* extract_chunk_to_jsonl, extract_streaming (from frame 0, no frame limit,
\* no timeout): one packet of the video
ExtractPacket ==
    /\ extractor.fn \in {"extract_chunk_to_jsonl", "extract_streaming"}
    /\ extractor.open
    /\ extractor.steps < MaxPackets
    /\ \E is_video \in BOOLEAN, send_ok \in BOOLEAN, frames \in FrameLists :
          extractor' = [extract_chunk_packet(extractor, is_video, send_ok, frames)
                           EXCEPT !.steps = @ + 1]
    /\ UNCHANGED <<decoder_vars, pipeline, planner, pool, parallel, controller, tui, feeding, numbering, store, detection, realtime>>

\* extract_chunk_to_jsonl, extract_streaming: the footer line after the last
\* packet
WriteFooter ==
    /\ extractor.fn \in {"extract_chunk_to_jsonl", "extract_streaming"}
    /\ extractor.open
    /\ extractor' = [extractor EXCEPT
                        !.open = FALSE,
                        !.lines = Append(@, [type |-> "footer",
                                             frame_number |-> 0, data |-> 0])]
    /\ UNCHANGED <<decoder_vars, pipeline, planner, pool, parallel, controller, tui, feeding, numbering, store, detection, realtime>>

\* extract_qr_simple_external: one entry of the directory of frame files;
\* frame_idx counts the entries
ProcessEntry ==
    /\ extractor.fn = "extract_from_chunks"
    /\ extractor.lines = <<>>
    /\ extractor.steps < MaxPackets
    /\ \E is_png \in BOOLEAN, codes \in CodeLists :
          extractor' = [extractor EXCEPT
                           !.steps = @ + 1,
                           !.qr_results =
                               IF is_png
                               THEN push_codes(@, extractor.steps, codes, 1)
                               ELSE @]
    /\ UNCHANGED <<decoder_vars, pipeline, planner, pool, parallel, controller, tui, feeding, numbering, store, detection, realtime>>

\* extract_from_chunks: save_chunk_to_jsonl writes the results of the chunk,
\* one line each, in their order
SaveChunk ==
    /\ extractor.fn = "extract_from_chunks"
    /\ extractor.lines = <<>>
    /\ extractor.qr_results # <<>>
    /\ extractor' = [extractor EXCEPT !.lines = extractor.qr_results]
    /\ UNCHANGED <<decoder_vars, pipeline, planner, pool, parallel, controller, tui, feeding, numbering, store, detection, realtime>>

ExtractNext ==
    \/ WriteHeader
    \/ ExtractPacket
    \/ WriteFooter
    \/ ProcessEntry
    \/ SaveChunk

ExtractSpec == ExtractInit /\ [][ExtractNext]_vars

\* the observation lines of the sidecar, in file order
Observations ==
    SelectSeq(extractor.lines, LAMBDA l : l.type = "qr_code")

\* C12: in the sidecar of one worker session the frame number never
\* decreases from one observation line to the next.
C12_SidecarMonotone ==
    \A i \in 1..(Len(Observations) - 1) :
        Observations[i].frame_number <= Observations[i + 1].frame_number

\* a finished sidecar with observations of different frames
C12_Witness ==
    /\ extractor.fn # "none"
    /\ ~extractor.open
    /\ Len(Observations) >= 2
    /\ Observations[1].frame_number < Observations[Len(Observations)].frame_number

\* ------------------------------------------------------------------------
\* Decoding streams with single-chunk files, repeated and out-of-range chunks
\* ------------------------------------------------------------------------
EdgeStream == 5

\* D:<packet_id>:<seed>:<seed_base>:<num_chunks>:<chunk_count>:<body>
MkDn(num_chunks, body) ==
    <<Tok("D", <<>>), Colon, Num(1), Colon, Num(0), Colon, Num(0), Colon,
      Num(num_chunks), Colon, Num(1), Colon>> \o body

\* the metadata of a file of one chunk
M_one == MkM(Name(2), 1, 1, <<>>)

\* the systematic packet of the single record 0:<base64>
D_single == MkDn(1, <<Num(0), Colon, B64(<<1>>)>>)

\* chunk 1 a second time, with other bytes
D_1alt == MkD(<<Num(1), Colon, B64(<<9>>), Pipe>>)

\* a record whose index is not below chunks_count
D_far == MkD(<<Num(5), Colon, B64(<<8>>), Pipe>>)

\* the name of M_A announced with another chunks_count
M_A_one == MkM(Name(1), 1, 1, <<>>)

EdgePackets == <<M_A, M_one, D_single, D_0, D_1, D_1alt, D_2, D_far, M_A_one>>

eM_A == CHOOSE i \in 1..Len(EdgePackets) : EdgePackets[i] = M_A

eM_one == CHOOSE i \in 1..Len(EdgePackets) : EdgePackets[i] = M_one

eD_single == CHOOSE i \in 1..Len(EdgePackets) : EdgePackets[i] = D_single

eD_0 == CHOOSE i \in 1..Len(EdgePackets) : EdgePackets[i] = D_0

eD_1 == CHOOSE i \in 1..Len(EdgePackets) : EdgePackets[i] = D_1

eD_1alt == CHOOSE i \in 1..Len(EdgePackets) : EdgePackets[i] = D_1alt

eD_2 == CHOOSE i \in 1..Len(EdgePackets) : EdgePackets[i] = D_2

eD_far == CHOOSE i \in 1..Len(EdgePackets) : EdgePackets[i] = D_far

IsMetadata(p) == StartsWith(p, "M")

EdgeInit ==
    /\ engine \in Engines
    /\ st = NewState
    /\ phase = "feed"
    /\ fed = 0
    /\ data_phase = FALSE
    /\ metas = 0
    /\ orphans = 0
    /\ shadow = NewState
    /\ scen = 0
    /\ got = EmptyMap
    /\ announced = EmptyMap
    /\ written2 = EmptyMap
    /\ report = EmptyMap
    /\ report2 = EmptyMap
    /\ input = <<>>
    /\ realtime = NoRealtime
    /\ detection = NoDetection
    /\ store = NoStore
    /\ numbering = NoNumbering
    /\ feeding = NoFeeding
    /\ tui = NoTui
    /\ controller = NoController
    /\ parallel = NoParallel
    /\ pool = NoPool
    /\ pipeline = Idle
    /\ planner = NoPlan
    /\ extractor = NoExtractor

\* the next payload of the input goes through the decoder of the run; the
\* decode command processes the metadata payloads of its input first
EdgeFeed ==
    /\ phase = "feed"
    /\ Len(input) < EdgeStream
    /\ \E i \in 1..Len(EdgePackets) :
          LET p == EdgePackets[i]
          IN /\ IsMetadata(p) => metas < MaxFiles
             /\ (engine = "main" /\ IsMetadata(p)) => ~data_phase
             /\ st' = EngineStep(engine, st, p).st
             /\ shadow' = EngineStep(engine, shadow, p).st
             /\ input' = Append(input, i)
             /\ data_phase' = (data_phase \/ ~IsMetadata(p))
             /\ metas' = IF IsMetadata(p) THEN metas + 1 ELSE metas
    /\ fed' = fed + 1
    /\ UNCHANGED <<engine, phase, orphans, scen, got, announced,
                   written2, report, report2, pipeline, planner, extractor,
                   pool,
                   parallel,
                   controller,
                   tui,
                   feeding,
                   numbering,
                   store,
                   detection,
                   realtime>>

EdgeNext ==
    \/ EdgeFeed
    \/ DecodeCommandFinalize
    \/ IntegratedFinalize
    \/ StandaloneFinalize
    \/ Reconstruct
    \/ ProcessQrData

EdgeSpec == EdgeInit /\ [][EdgeNext]_vars

\* the key of the file M_one announces
KeyOne ==
    CHOOSE k \in DOMAIN st.files : st.files[k].metadata.file_name = <<Name(2)>>

\* C13: a file of one chunk that has received the systematic packet of the
\* single record 0:<base64> is complete, and once the run has ended it is in
\* the output directory with the bytes of the record.
C13_SingleChunkCompletes ==
    input = <<eM_one, eD_single>> =>
        /\ Complete(st.files[KeyOne])
        /\ phase = "final" =>
               /\ <<Name(2)>> \in DOMAIN st.written
               /\ st.written[<<Name(2)>>].data = <<1>>

\* the first k elements of a sequence, all of it when it has fewer
Take(seq, k) == SubSeq(seq, 1, IF k <= Len(seq) THEN k ELSE Len(seq))

RECURSIVE AscendingBytes(_, _)
\* the chunks 0..n-1 one after the other
AscendingBytes(chunks, n) ==
    IF n = 0 THEN <<>>
    ELSE AscendingBytes(chunks, n - 1) \o chunks[n - 1]

\* the file name was written, or written anew, in this step
Emitted(name) ==
    /\ name \in DOMAIN st'.written
    /\ name \in DOMAIN st.written => st'.written[name] # st.written[name]

\* what one step that writes a file must write
EmitsConcatenation ==
    \A name \in DOMAIN st'.written :
        Emitted(name) =>
            LET fd == st'.files[st'.written[name].by]
            IN /\ \A c \in 0..(fd.metadata.chunks_count - 1) :
                      c \in DOMAIN fd.source_chunks
               /\ st'.written[name].data
                      = Take(AscendingBytes(fd.source_chunks,
                                            fd.metadata.chunks_count),
                             fd.metadata.file_size)

\* C14: the bytes written for a file are the chunks 0..chunks_count-1 of its
\* decoder in ascending order, cut to file_size bytes.
C14_EmittedBytes == [][EmitsConcatenation]_vars

\* the step feeds a data packet to the decoders
FeedsRecord ==
    /\ input' # input
    /\ ~IsMetadata(EdgePackets[input'[Len(input')]])

\* what a data packet may do to the chunks of a decoder it finds
RecordGuarded ==
    \A k \in DOMAIN st.files \cap DOMAIN st'.files :
        LET old == st.files[k]
            new == st'.files[k]
        IN /\ \A c \in DOMAIN old.source_chunks :
                  /\ c \in DOMAIN new.source_chunks
                  /\ new.source_chunks[c] = old.source_chunks[c]
           /\ \A c \in DOMAIN new.source_chunks \ DOMAIN old.source_chunks :
                  c < old.metadata.chunks_count
           /\ new.recovered_chunk_count - old.recovered_chunk_count
                  = Cardinality(DOMAIN new.source_chunks
                                    \ DOMAIN old.source_chunks)

\* C15: a systematic record stores its chunk only under an index below
\* chunks_count that holds no chunk yet; the chunks already held keep their
\* bytes and the received count grows by the chunks stored.
C15_RecordGuarded == [][FeedsRecord => RecordGuarded]_vars

\* the number of distinct chunk indices a decoder holds
HeldIndices(fd) == Cardinality(DOMAIN fd.source_chunks)

\* C16: a file decoder reports complete exactly when the number of distinct
\* chunk indices it holds equals the chunks_count of its metadata.
C16_CompleteIffAllHeld ==
    \A k \in DOMAIN st.files :
        Complete(st.files[k])
            <=> HeldIndices(st.files[k]) = st.files[k].metadata.chunks_count

\* the payload fed in this step
FedPayload == EdgePackets[input'[Len(input')]]

\* the step feeds the metadata of a file whose decoder has completed
MetadataAfterCompletion ==
    /\ input' # input
    /\ IsMetadata(FedPayload)
    /\ \E k \in DOMAIN st.files :
          /\ st.files[k].metadata.file_name
                 = parse_metadata(FedPayload).metadata.file_name
          /\ st.files[k].metadata.chunks_count
                 = parse_metadata(FedPayload).metadata.chunks_count
          /\ Complete(st.files[k])

\* the decoder that receives the next data packets holds nothing
ActiveIsFresh ==
    /\ st'.active \in DOMAIN st'.files
    /\ st'.files[st'.active].source_chunks = EmptyMap
    /\ st'.files[st'.active].recovered_chunk_count = 0

\* a data packet changes no decoder but the active one
CollectedByActive ==
    (FeedsRecord /\ st.active \in DOMAIN st.files)
        => \A k \in DOMAIN st.files \ {st.active} :
               k \in DOMAIN st'.files /\ st'.files[k] = st.files[k]

\* C17: an M packet for the key of a completed file leaves a fresh decoder
\* without chunks as the active one, and the D packets that follow change
\* that decoder only.
C17_FreshAfterCompletion ==
    [][(MetadataAfterCompletion => ActiveIsFresh) /\ CollectedByActive]_vars

\* the metadata the payload fed in this step announces
FedMetadata == parse_metadata(FedPayload).metadata

\* the decoders of state s that a key (file_name, chunks_count) names
DecodersOf(s, m) ==
    {k \in DOMAIN s.files :
        /\ s.files[k].metadata.file_name = m.file_name
        /\ s.files[k].metadata.chunks_count = m.chunks_count}

\* an M packet whose key has no decoder creates one and touches no other
CreatesIfNone ==
    DecodersOf(st, FedMetadata) = {}
        => /\ \E k \in DecodersOf(st', FedMetadata) :
                  /\ DOMAIN st'.files = DOMAIN st.files \cup {k}
                  /\ k \notin DOMAIN st.files
                  /\ st'.active = k
           /\ \A k \in DOMAIN st.files : st'.files[k] = st.files[k]

\* an M packet whose key has a decoder in progress selects it as it is
SelectsIfInProgress ==
    \A k \in DecodersOf(st, FedMetadata) :
        ~Complete(st.files[k])
            => /\ st'.files = st.files
               /\ st'.active = k

\* C18: decoders are keyed by (file_name, chunks_count); an M packet creates
\* a decoder only if its key has none, and otherwise selects the existing
\* decoder in progress with the chunks it holds.
C18_KeyedByNameAndCount ==
    [][(input' # input /\ IsMetadata(FedPayload))
           => (CreatesIfNone /\ SelectsIfInProgress)]_vars

\* the frames that have a line in the sidecar sc of the video v
SidecarFrames(v, sc) == IF sc.exists THEN FramesIn(v, sc.lo, sc.hi) ELSE {}

\* C19: a sidecar is append-only: no step removes a line from the sidecar of
\* a chunk, so after the restart of a stopped run every sidecar still holds
\* the lines it had before.
C19_SidecarAppendOnly ==
    [][\A c \in ChunkIds(pipeline.video) :
           SidecarFrames(pipeline.video, pipeline.sidecar[c])
               \subseteq SidecarFrames(pipeline'.video, pipeline'.sidecar[c])
      ]_vars

\* the smallest frame that is a multiple of the frame stride and greater than
\* every frame of the set
FirstAlignedAbove(v, frames) ==
    CHOOSE f \in 0..(v.total_duration * v.frame_rate + v.skip_frames + 1) :
        /\ f % (v.skip_frames + 1) = 0
        /\ \A g \in frames : f > g
        /\ \A h \in 0..(f - 1) :
               ~(h % (v.skip_frames + 1) = 0 /\ \A g \in frames : h > g)

\* the chunk c is judged complete from its sidecar
JudgedComplete(v, sidecars, c) ==
    /\ sidecars[c].exists
    /\ determine_completion(v, c, calculate_expected_frames(v, c),
                            analyze_jsonl_content(v, sidecars[c]))

\* the step restarts a stopped run
Restarts == pipeline.run = "stopped" /\ pipeline'.run = "resumed"

\* what the restart does with each chunk
ResumePoints ==
    \A c \in ChunkIds(pipeline.video) :
        IF JudgedComplete(pipeline.video, pipeline.sidecar, c)
        THEN pipeline'.worker[c] = "skipped"
        ELSE /\ pipeline'.worker[c] = "queued"
             /\ pipeline'.start[c]
                    = FirstAlignedAbove(pipeline.video,
                          SidecarFrames(pipeline.video, pipeline.sidecar[c]))

\* a chunk that was skipped is not extracted and its sidecar is not written
SkippedStays ==
    \A c \in ChunkIds(pipeline.video) :
        pipeline.worker[c] = "skipped"
            => /\ pipeline'.worker[c] = "skipped"
               /\ pipeline'.sidecar[c] = pipeline.sidecar[c]

\* C20: on resume a chunk judged complete is not extracted again, and a chunk
\* judged incomplete restarts at the smallest frame that is aligned to the
\* frame stride and greater than every frame_number in its sidecar.
C20_ResumePoint == [][(Restarts => ResumePoints) /\ SkippedStays]_vars

\* the four completion criteria for the chunk c of the video v, on the
\* analysis a of its sidecar, with the thresholds as exact ratios
AllFourCriteria(v, c, a) ==
    LET expected_frames == calculate_expected_frames(v, c)
        expected_max_frame == expected_frames \div (v.skip_frames + 1)
        enough_codes == a.qr_codes >= (IF c = v.chunk_count - 1 THEN 200 ELSE 300)
    IN /\ \/ a.actual_frames * 100 >= 95 * expected_frames
          \/ enough_codes /\ a.actual_frames * 100 >= 80 * expected_frames
       /\ expected_max_frame > 0
       /\ a.max_frame * 100 >= 90 * expected_max_frame
       /\ enough_codes
       /\ (a.max_frame - a.min_frame) * 100 >= 80 * expected_max_frame

\* C21: a chunk is judged complete only if frame coverage, range coverage,
\* QR count and frame span all reach their thresholds.
C21_CompleteOnlyIfAllCriteria ==
    \A c \in ChunkIds(pipeline.video) :
        JudgedComplete(pipeline.video, pipeline.sidecar, c)
            => AllFourCriteria(pipeline.video, c,
                   analyze_jsonl_content(pipeline.video, pipeline.sidecar[c]))

\* ------------------------------------------------------------------------
\* Phase 2: the workers of the chunks
\* ------------------------------------------------------------------------
\* the chunks of the plan
PoolChunks == 0..2

\* the numbers of worker threads of process_chunks_parallel
ThreadCounts == 1..3

\* what the extraction of a chunk can meet.  extract_from_chunks: the frames
\* are extracted and hold codes; ffmpeg cannot be started or exits with an
\* error; the directory of the frames cannot be created; the sidecar cannot be
\* created.  process_chunks_parallel: the chunk is decoded; the chunk cannot
\* be opened; the header cannot be written to the sidecar just created.
Outcomes(fn) ==
    IF fn = "extract_from_chunks"
    THEN {"codes", "ffmpeg_failed", "dir_error", "save_error"}
    ELSE {"codes", "open_error", "write_error"}

\* the codes found in a chunk that is extracted
CodesPerChunk == 1 + 1

NoFile == [exists |-> FALSE, lines |-> 0, footer |-> FALSE]

\* callback(ProcessingEvent::..) and the lines the threads print
Report(p, type, c) ==
    [p EXCEPT !.events = Append(@, [type |-> type, chunk_id |-> c])]

PoolInit ==
    /\ engine = "reconstructor"
    /\ st = NewState
    /\ phase = "feed"
    /\ fed = 0
    /\ data_phase = FALSE
    /\ metas = 0
    /\ orphans = 0
    /\ shadow = NewState
    /\ scen = 0
    /\ got = EmptyMap
    /\ announced = EmptyMap
    /\ written2 = EmptyMap
    /\ report = EmptyMap
    /\ report2 = EmptyMap
    /\ input = <<>>
    /\ realtime = NoRealtime
    /\ detection = NoDetection
    /\ store = NoStore
    /\ numbering = NoNumbering
    /\ feeding = NoFeeding
    /\ tui = NoTui
    /\ controller = NoController
    /\ parallel = NoParallel
    /\ pipeline = Idle
    /\ planner = NoPlan
    /\ extractor = NoExtractor
    /\ \E fn \in {"extract_from_chunks", "process_chunks_parallel"} :
       \E outcome \in [PoolChunks -> Outcomes(fn)] :
       \E max_threads \in ThreadCounts :
          /\ fn = "extract_from_chunks" => max_threads = 1
          /\ pool = [fn              |-> fn,
                     max_threads     |-> max_threads,
                     outcome         |-> outcome,
                     worker          |-> [c \in PoolChunks |-> "queued"],
                     qr_results      |-> [c \in PoolChunks |-> 0],
                     sidecar         |-> [c \in PoolChunks |-> NoFile],
                     events          |-> <<>>,
                     processed_count |-> 0,
                     verified_chunks |-> 0,
                     finished        |-> FALSE]

\* extract_from_chunks: the closure of the parallel iterator starts on a chunk
ChunkStarted(c) ==
    /\ pool.fn = "extract_from_chunks"
    /\ pool.worker[c] = "queued"
    /\ pool' = Report([pool EXCEPT !.worker[c] = "started"], "ChunkStarted", c)
    /\ UNCHANGED <<decoder_vars, pipeline, planner, extractor, parallel, controller, tui, feeding, numbering, store, detection, realtime>>

\* extract_qr_simple_external: an error of create_dir_all is returned, a
\* failure of ffmpeg gives Ok(Vec::new())
extract_chunk_to_qr_data(p, c) ==
    CASE p.outcome[c] = "dir_error" ->
             Report([p EXCEPT !.worker[c] = "done"], "Error", c)
      [] p.outcome[c] = "ffmpeg_failed" ->
             [p EXCEPT !.worker[c] = "extracted", !.qr_results[c] = 0]
      [] OTHER ->
             [p EXCEPT !.worker[c] = "extracted", !.qr_results[c] = CodesPerChunk]

ExtractChunkData(c) ==
    /\ pool.fn = "extract_from_chunks"
    /\ pool.worker[c] = "started"
    /\ pool' = extract_chunk_to_qr_data(pool, c)
    /\ UNCHANGED <<decoder_vars, pipeline, planner, extractor, parallel, controller, tui, feeding, numbering, store, detection, realtime>>

\* extract_from_chunks after Ok(chunk_results): save_chunk_to_jsonl writes one
\* line per code and flushes, ChunkCompleted follows it; the processed count
\* grows whether the sidecar was saved or not
save_and_report(p, c) ==
    LET saved == IF p.outcome[c] = "save_error"
                 THEN Report(p, "Error", c)
                 ELSE Report([p EXCEPT !.sidecar[c] =
                                  [exists |-> TRUE,
                                   lines  |-> p.qr_results[c],
                                   footer |-> FALSE]],
                             "ChunkCompleted", c)
    IN [saved EXCEPT !.worker[c] = "done", !.processed_count = @ + 1]

SaveResults(c) ==
    /\ pool.fn = "extract_from_chunks"
    /\ pool.worker[c] = "extracted"
    /\ pool' = save_and_report(pool, c)
    /\ UNCHANGED <<decoder_vars, pipeline, planner, extractor, parallel, controller, tui, feeding, numbering, store, detection, realtime>>

\* extract_from_chunks after the parallel iterator: the sidecars that exist
\* are counted
VerifyChunks ==
    /\ pool.fn = "extract_from_chunks"
    /\ ~pool.finished
    /\ \A c \in PoolChunks : pool.worker[c] = "done"
    /\ pool' = [pool EXCEPT
                   !.finished = TRUE,
                   !.verified_chunks =
                       Cardinality({c \in PoolChunks : pool.sidecar[c].exists})]
    /\ UNCHANGED <<decoder_vars, pipeline, planner, extractor, parallel, controller, tui, feeding, numbering, store, detection, realtime>>

\* process_chunks_parallel: the thread that has the chunk i in its range
ThreadOf(p, i) ==
    i \div ((Cardinality(PoolChunks) + p.max_threads - 1) \div p.max_threads)

\* process_chunks_parallel: a thread takes the next chunk of its range;
\* extract_chunk_to_jsonl opens the chunk and creates the sidecar
ThreadOpensChunk(c) ==
    /\ pool.fn = "process_chunks_parallel"
    /\ pool.worker[c] = "queued"
    /\ \A b \in PoolChunks :
           (b < c /\ ThreadOf(pool, b) = ThreadOf(pool, c))
               => pool.worker[b] = "done"
    /\ pool' = IF pool.outcome[c] = "open_error"
               THEN Report([pool EXCEPT !.worker[c] = "done"], "Error", c)
               ELSE [pool EXCEPT !.worker[c] = "writing",
                                 !.sidecar[c] = [exists |-> TRUE, lines |-> 0,
                                                 footer |-> FALSE]]
    /\ UNCHANGED <<decoder_vars, pipeline, planner, extractor, parallel, controller, tui, feeding, numbering, store, detection, realtime>>

\* extract_chunk_to_jsonl from the header to the footer, and the match on its
\* result in the thread
ThreadWritesChunk(c) ==
    /\ pool.fn = "process_chunks_parallel"
    /\ pool.worker[c] = "writing"
    /\ pool' = IF pool.outcome[c] = "write_error"
               THEN Report([pool EXCEPT !.worker[c] = "done"], "Error", c)
               ELSE Report([pool EXCEPT
                               !.worker[c] = "done",
                               !.qr_results[c] = CodesPerChunk,
                               !.sidecar[c] = [exists |-> TRUE,
                                               lines  |-> CodesPerChunk + 2,
                                               footer |-> TRUE]],
                           "ChunkCompleted", c)
    /\ UNCHANGED <<decoder_vars, pipeline, planner, extractor, parallel, controller, tui, feeding, numbering, store, detection, realtime>>

\* process_chunks_parallel: the threads are joined
JoinThreads ==
    /\ pool.fn = "process_chunks_parallel"
    /\ ~pool.finished
    /\ \A c \in PoolChunks : pool.worker[c] = "done"
    /\ pool' = [pool EXCEPT !.finished = TRUE]
    /\ UNCHANGED <<decoder_vars, pipeline, planner, extractor, parallel, controller, tui, feeding, numbering, store, detection, realtime>>

PoolNext ==
    \/ \E c \in PoolChunks : ChunkStarted(c)
    \/ \E c \in PoolChunks : ExtractChunkData(c)
    \/ \E c \in PoolChunks : SaveResults(c)
    \/ VerifyChunks
    \/ \E c \in PoolChunks : ThreadOpensChunk(c)
    \/ \E c \in PoolChunks : ThreadWritesChunk(c)
    \/ JoinThreads

PoolSpec == PoolInit /\ [][PoolNext]_vars

\* the event type was reported for the chunk c
Reported(type, c) ==
    \E i \in 1..Len(pool.events) :
        pool.events[i] = [type |-> type, chunk_id |-> c]

\* the extraction of the chunk c did not succeed
ExtractionFailed(c) == pool.outcome[c] # "codes"

\* C22: when phase 2 has ended, a chunk is reported as failed exactly if its
\* extraction failed; every other chunk has run to its end and has its
\* sidecar.
C22_FailureIsolated ==
    pool.finished =>
        \A c \in PoolChunks :
            IF ExtractionFailed(c)
            THEN Reported("Error", c) /\ ~Reported("ChunkCompleted", c)
            ELSE /\ ~Reported("Error", c)
                 /\ Reported("ChunkCompleted", c)
                 /\ pool.sidecar[c].exists
                 /\ pool.sidecar[c].lines > 0

\* C23: a chunk is reported complete only when its sidecar exists, holds at
\* least one line and ends with its footer line.
C23_CompleteAfterFooter ==
    \A c \in PoolChunks :
        Reported("ChunkCompleted", c)
            => /\ pool.sidecar[c].exists
               /\ pool.sidecar[c].lines > 0
               /\ pool.sidecar[c].footer

\* ------------------------------------------------------------------------
\* Parallel extraction: one producer of frames, the consumers, cancellation
\* ------------------------------------------------------------------------
\* the video packets of the input
VideoPackets == 1 + 4

\* the functions that start a producer and its consumers
Orchestrators ==
    {"extract_qr_codes_with_text_parallel_logging", "extract_decode_tui_mode"}

\* a channel that holds one frame more than sync_channel(threads * 4)
one_more_frame(threads) == threads * 4 + 1

\* mpsc::sync_channel(threads * 4)
Capacity(threads) == threads * 4

ParallelInit ==
    /\ engine = "main"
    /\ st = NewState
    /\ phase = "feed"
    /\ fed = 0
    /\ data_phase = FALSE
    /\ metas = 0
    /\ orphans = 0
    /\ shadow = NewState
    /\ scen = 0
    /\ got = EmptyMap
    /\ announced = EmptyMap
    /\ written2 = EmptyMap
    /\ report = EmptyMap
    /\ report2 = EmptyMap
    /\ input = <<>>
    /\ realtime = NoRealtime
    /\ detection = NoDetection
    /\ store = NoStore
    /\ numbering = NoNumbering
    /\ feeding = NoFeeding
    /\ tui = NoTui
    /\ controller = NoController
    /\ pipeline = Idle
    /\ planner = NoPlan
    /\ extractor = NoExtractor
    /\ pool = NoPool
    /\ \E timeout_seconds \in {0, 1}, threads \in {1, 2}, fn \in Orchestrators :
          parallel = [fn          |-> fn,
                      orchestrator |-> "waiting",
                      decoding    |-> IF fn = "extract_decode_tui_mode"
                                      THEN "recv" ELSE "none",
                      background  |-> IF fn = "extract_decode_tui_mode"
                                      THEN "running" ELSE "none",
                      ExtractionComplete |-> 0,
                      timeout_seconds |-> timeout_seconds,
                      threads     |-> threads,
                      elapsed     |-> 0,
                      INTERRUPTED |-> FALSE,
                      producer    |-> "loop",
                      packets     |-> VideoPackets,
                      frame_tx    |-> 0,
                      consumer    |-> [t \in 1..threads |-> "recv"],
                      dispatched  |-> 0]

\* extract_frames_producer_with_logging: one video packet of the loop, from
\* the timeout check to the decoded frame that is ready to be sent
ProducerPacket ==
    /\ parallel.producer = "loop"
    /\ parallel.packets > 0
    /\ IF parallel.timeout_seconds > 0
          /\ parallel.elapsed >= parallel.timeout_seconds
       THEN parallel' = [parallel EXCEPT !.producer = "done"]
       ELSE parallel' = [parallel EXCEPT !.packets = @ - 1,
                                         !.producer = "send",
                                         !.dispatched = @ + 1]
    /\ UNCHANGED <<decoder_vars, pipeline, planner, extractor, pool, controller, tui, feeding, numbering, store, detection, realtime>>

\* extract_frames_producer_with_logging: frame_tx.send(frame_data) returns
\* once the channel has room for the frame
ProducerSend ==
    /\ parallel.producer = "send"
    /\ parallel.frame_tx < Capacity(parallel.threads)
    /\ parallel' = [parallel EXCEPT !.frame_tx = @ + 1,
                                    !.producer = "loop"]
    /\ UNCHANGED <<decoder_vars, pipeline, planner, extractor, pool, controller, tui, feeding, numbering, store, detection, realtime>>

\* extract_frames_producer_with_logging: the packets are exhausted,
\* drop(frame_tx)
ProducerEnd ==
    /\ parallel.producer = "loop"
    /\ parallel.packets = 0
    /\ parallel' = [parallel EXCEPT !.producer = "done"]
    /\ UNCHANGED <<decoder_vars, pipeline, planner, extractor, pool, controller, tui, feeding, numbering, store, detection, realtime>>

\* qr_detection_consumer_with_progress: receiver.recv() gives the next frame,
\* or an error once the sender is dropped and the queue is empty
ConsumerRecv(t) ==
    /\ parallel.consumer[t] = "recv"
    /\ IF parallel.frame_tx > 0
       THEN parallel' = [parallel EXCEPT !.frame_tx = @ - 1,
                                         !.consumer[t] = "detect",
                                         !.dispatched = @ + 1]
       ELSE /\ parallel.producer = "done"
            /\ parallel' = [parallel EXCEPT !.consumer[t] = "exited"]
    /\ UNCHANGED <<decoder_vars, pipeline, planner, extractor, pool, controller, tui, feeding, numbering, store, detection, realtime>>

\* qr_detection_consumer_with_progress: the codes of the frame are detected
\* and sent, the loop starts again
ConsumerDetect(t) ==
    /\ parallel.consumer[t] = "detect"
    /\ parallel' = [parallel EXCEPT !.consumer[t] = "recv"]
    /\ UNCHANGED <<decoder_vars, pipeline, planner, extractor, pool, controller, tui, feeding, numbering, store, detection, realtime>>

\* the time given by timeout_seconds has passed
Deadline ==
    /\ parallel.producer # "none"
    /\ parallel.timeout_seconds > 0
    /\ parallel.elapsed < parallel.timeout_seconds
    /\ parallel' = [parallel EXCEPT !.elapsed = @ + 1]
    /\ UNCHANGED <<decoder_vars, pipeline, planner, extractor, pool, controller, tui, feeding, numbering, store, detection, realtime>>

\* the handler that setup_signal_handlers installs: it stores true in the
\* static INTERRUPTED of that function and logs
SignalHandler ==
    /\ parallel.producer # "none"
    /\ ~parallel.INTERRUPTED
    /\ parallel' = [parallel EXCEPT !.INTERRUPTED = TRUE]
    /\ UNCHANGED <<decoder_vars, pipeline, planner, extractor, pool, controller, tui, feeding, numbering, store, detection, realtime>>

\* every consumer has left its loop and dropped its result sender
ConsumersExited ==
    \A t \in DOMAIN parallel.consumer : parallel.consumer[t] = "exited"

\* extract_qr_codes_with_text_parallel_logging: the loop over result_rx ends
\* when every result sender is dropped, then the producer and the consumers
\* are joined and the function returns
CollectAndJoin ==
    /\ parallel.fn = "extract_qr_codes_with_text_parallel_logging"
    /\ parallel.orchestrator = "waiting"
    /\ ConsumersExited
    /\ parallel.producer = "done"
    /\ parallel' = [parallel EXCEPT !.orchestrator = "returned"]
    /\ UNCHANGED <<decoder_vars, pipeline, planner, extractor, pool, controller, tui, feeding, numbering, store, detection, realtime>>

\* extract_decode_tui_mode, the decoding thread: the loop over result_rx ends
\* when every result sender is dropped, ExtractionComplete is sent to the
\* loop of the interface
DecodingThreadEnd ==
    /\ parallel.fn = "extract_decode_tui_mode"
    /\ parallel.decoding = "recv"
    /\ ConsumersExited
    /\ parallel' = [parallel EXCEPT !.decoding = "exited",
                                    !.ExtractionComplete = @ + 1]
    /\ UNCHANGED <<decoder_vars, pipeline, planner, extractor, pool, controller, tui, feeding, numbering, store, detection, realtime>>

\* extract_decode_tui_mode, the thread of the extraction in the background:
\* extract_qr_codes_for_tui returns, its results are processed and
\* ExtractionComplete, or Error, is sent to the loop of the interface
BackgroundExtractionEnd ==
    /\ parallel.fn = "extract_decode_tui_mode"
    /\ parallel.background = "running"
    /\ parallel' = [parallel EXCEPT !.background = "exited",
                                    !.ExtractionComplete = @ + 1]
    /\ UNCHANGED <<decoder_vars, pipeline, planner, extractor, pool, controller, tui, feeding, numbering, store, detection, realtime>>

\* extract_decode_tui_mode, the loop of the interface: the key q leaves the
\* loop and the function returns
TuiQuit ==
    /\ parallel.fn = "extract_decode_tui_mode"
    /\ parallel.orchestrator = "waiting"
    /\ parallel' = [parallel EXCEPT !.orchestrator = "returned"]
    /\ UNCHANGED <<decoder_vars, pipeline, planner, extractor, pool, controller, tui, feeding, numbering, store, detection, realtime>>

\* extract_decode_tui_mode, the loop of the interface: a message
\* ExtractionComplete or Error sets completed, the loop is left and the
\* function returns
TuiCompleted ==
    /\ parallel.fn = "extract_decode_tui_mode"
    /\ parallel.orchestrator = "waiting"
    /\ parallel.ExtractionComplete > 0
    /\ parallel' = [parallel EXCEPT !.orchestrator = "returned",
                                    !.ExtractionComplete = 0]
    /\ UNCHANGED <<decoder_vars, pipeline, planner, extractor, pool, controller, tui, feeding, numbering, store, detection, realtime>>

ParallelNext ==
    \/ ProducerPacket
    \/ ProducerSend
    \/ CollectAndJoin
    \/ DecodingThreadEnd
    \/ BackgroundExtractionEnd
    \/ TuiQuit
    \/ TuiCompleted
    \/ ProducerEnd
    \/ \E t \in DOMAIN parallel.consumer : ConsumerRecv(t)
    \/ \E t \in DOMAIN parallel.consumer : ConsumerDetect(t)
    \/ Deadline
    \/ SignalHandler

ParallelSpec == ParallelInit /\ [][ParallelNext]_vars

\* cancellation has been signalled: the interrupt, or the timeout
Cancelled ==
    \/ parallel.INTERRUPTED
    \/ parallel.timeout_seconds > 0
           /\ parallel.elapsed >= parallel.timeout_seconds

\* C24: once cancellation is signalled no worker takes up another packet or
\* frame.
C24_NoDispatchAfterCancel ==
    [][Cancelled => parallel'.dispatched = parallel.dispatched]_vars

\* ------------------------------------------------------------------------
\* The resume controller: chunk states, the saved resume state, interruption
\* ------------------------------------------------------------------------
ControllerChunks == 0..2

\* ResumeState::update_chunk_progress: the chunk is tracked from now on and
\* has the given status
update_chunk_progress(chunks, c, status) == [chunks EXCEPT ![c] = status]

\* ResumeState::mark_chunk_error: a tracked chunk becomes Failed, an
\* untracked one stays untracked
mark_chunk_error(chunks, c) ==
    IF chunks[c] = "untracked" THEN chunks ELSE [chunks EXCEPT ![c] = "Failed"]

\* the loop of ResumeController::handle_interruption over the chunks
mark_interrupted(chunks) ==
    [c \in DOMAIN chunks |->
        IF chunks[c] = "Processing" THEN "Interrupted" ELSE chunks[c]]

\* ResumeState::new: no chunk is tracked, no resume_state.json yet
ControllerInit ==
    /\ engine = "main"
    /\ st = NewState
    /\ phase = "feed"
    /\ fed = 0
    /\ data_phase = FALSE
    /\ metas = 0
    /\ orphans = 0
    /\ shadow = NewState
    /\ scen = 0
    /\ got = EmptyMap
    /\ announced = EmptyMap
    /\ written2 = EmptyMap
    /\ report = EmptyMap
    /\ report2 = EmptyMap
    /\ input = <<>>
    /\ realtime = NoRealtime
    /\ detection = NoDetection
    /\ store = NoStore
    /\ numbering = NoNumbering
    /\ feeding = NoFeeding
    /\ tui = NoTui
    /\ pipeline = Idle
    /\ planner = NoPlan
    /\ extractor = NoExtractor
    /\ pool = NoPool
    /\ parallel = NoParallel
    /\ controller = [chunks      |-> [c \in ControllerChunks |-> "untracked"],
                     saved       |-> [c \in ControllerChunks |-> "untracked"],
                     INTERRUPTED |-> FALSE,
                     at_signal   |-> {},
                     stage       |-> "running"]

\* ResumeController::update_and_save(c, .., Processing): a worker takes up
\* the chunk
StartChunk(c) ==
    /\ controller.stage = "running"
    /\ controller.chunks[c] = "untracked"
    /\ LET chunks == update_chunk_progress(controller.chunks, c, "Processing")
       IN  controller' = [controller EXCEPT !.chunks = chunks, !.saved = chunks]
    /\ UNCHANGED <<decoder_vars, pipeline, planner, extractor, pool, parallel, tui, feeding, numbering, store, detection, realtime>>

\* ResumeController::update_and_save(c, .., Completed): the worker is done
FinishChunk(c) ==
    /\ controller.stage = "running"
    /\ controller.chunks[c] = "Processing"
    /\ LET chunks == update_chunk_progress(controller.chunks, c, "Completed")
       IN  controller' = [controller EXCEPT !.chunks = chunks, !.saved = chunks]
    /\ UNCHANGED <<decoder_vars, pipeline, planner, extractor, pool, parallel, tui, feeding, numbering, store, detection, realtime>>

\* ResumeController::handle_error(Some(c), ..)
handle_error(c) ==
    /\ controller.stage = "running"
    /\ controller.chunks[c] \in {"untracked", "Processing"}
    /\ LET chunks == mark_chunk_error(controller.chunks, c)
       IN  controller' = [controller EXCEPT !.chunks = chunks, !.saved = chunks]
    /\ UNCHANGED <<decoder_vars, pipeline, planner, extractor, pool, parallel, tui, feeding, numbering, store, detection, realtime>>

\* the handler that setup_signal_handlers installs, on the user's interrupt:
\* the static of that function is set and a line is logged. at_signal
\* remembers the chunks that were Processing at that moment.
ctrlc_handler ==
    /\ controller.stage = "running"
    /\ ~controller.INTERRUPTED
    /\ controller' = [controller EXCEPT
           !.INTERRUPTED = TRUE,
           !.at_signal = {c \in ControllerChunks :
                              controller.chunks[c] = "Processing"}]
    /\ UNCHANGED <<decoder_vars, pipeline, planner, extractor, pool, parallel, tui, feeding, numbering, store, detection, realtime>>

\* ResumeController::handle_interruption, whenever its caller calls it
handle_interruption ==
    /\ controller.stage = "running"
    /\ LET chunks == mark_interrupted(controller.chunks)
       IN  controller' = [controller EXCEPT !.chunks = chunks,
                                            !.saved = chunks,
                                            !.stage = "stopping"]
    /\ UNCHANGED <<decoder_vars, pipeline, planner, extractor, pool, parallel, tui, feeding, numbering, store, detection, realtime>>

\* the process ends: after handle_interruption, or with no chunk left to do
ProcessExit ==
    /\ \/ controller.stage = "stopping"
       \/ /\ controller.stage = "running"
          /\ \A c \in ControllerChunks :
                 controller.chunks[c] \in {"Completed", "Failed"}
    /\ controller' = [controller EXCEPT !.stage = "exited"]
    /\ UNCHANGED <<decoder_vars, pipeline, planner, extractor, pool, parallel, tui, feeding, numbering, store, detection, realtime>>

ControllerNext ==
    \/ \E c \in ControllerChunks : StartChunk(c)
    \/ \E c \in ControllerChunks : FinishChunk(c)
    \/ \E c \in ControllerChunks : handle_error(c)
    \/ ctrlc_handler
    \/ handle_interruption
    \/ ProcessExit

ControllerSpec == ControllerInit /\ [][ControllerNext]_vars

\* C25: when the process has exited, every chunk that was Processing at the
\* interrupt is Interrupted in the saved resume state.
C25_InterruptedRecorded ==
    controller.stage = "exited" =>
        \A c \in controller.at_signal : controller.saved[c] = "Interrupted"

\* ------------------------------------------------------------------------
\* The integrity report
\* ------------------------------------------------------------------------
\* the run of phase 3 has ended
ReconstructionEnded ==
    engine = "reconstructor" /\ phase \in {"final", "reported", "failed"}

\* every source chunk of the file is held
CompletelyReconstructed(fd) == reconstruct_file_owned(fd).ok

\* the report lists only files that were completely reconstructed
ReportsOnlyCompleted ==
    \A k \in DOMAIN report :
        k \in DOMAIN st.files /\ CompletelyReconstructed(st.files[k])

\* the run has finished and reports every completed file
ReportsTheCompleted ==
    /\ phase # "failed"
    /\ \A k \in DOMAIN st.files :
           st.files[k].is_complete /\ CompletelyReconstructed(st.files[k])
               => k \in DOMAIN report

\* C26: the integrity report has an entry for a file only if the file was
\* completely reconstructed, and a run with incomplete files still finishes
\* and reports the completed ones.
C26_ReportOfCompletedFiles ==
    ReconstructionEnded => ReportsOnlyCompleted /\ ReportsTheCompleted

\* ------------------------------------------------------------------------
\* TuiState: the message list
\* ------------------------------------------------------------------------
\* the length above which handle_event drops the oldest message
MessageLimit == 100

\* events handled after the first SystemError or InitializationProgress
MaxLateEvents == 4

SystemError == [type |-> "SystemError", context |-> "Test Context",
                error |-> "Test Error"]

InitializationProgress == [type |-> "InitializationProgress",
                           stage |-> "Test Stage", message |-> "Test Message"]

Progress == [type |-> "Progress", phase |-> "1", message |-> "Analyzing video..."]

\* the format! of the message of an event, as its pieces (the leading icon
\* left out)
FormatMessage(event) ==
    CASE event.type = "SystemError" ->
             <<"System Error", " in ", event.context, ": ", event.error>>
      [] event.type = "InitializationProgress" ->
             <<event.stage, ": ", event.message>>
      [] event.type = "Progress" ->
             <<"Progress [", event.phase, "]: ", event.message>>

\* str::contains on a formatted message
MessageContains(message, text) == \E i \in DOMAIN message : message[i] = text

\* the handler as if it pushed nothing
push_nothing(messages, message) == messages

\* self.messages.push(..); if self.messages.len() > 100 { remove(0) }
push_capped(messages, message) ==
    LET pushed == Append(messages, message)
    IN IF Len(pushed) > MessageLimit THEN Tail(pushed) ELSE pushed

\* TuiState::handle_event for SystemError, InitializationProgress and
\* Progress: the message list afterwards
handle_event(messages, event) == push_capped(messages, FormatMessage(event))

\* TuiState::new
TuiInit ==
    /\ engine = "main"
    /\ st = NewState
    /\ phase = "feed"
    /\ fed = 0
    /\ data_phase = FALSE
    /\ metas = 0
    /\ orphans = 0
    /\ shadow = NewState
    /\ scen = 0
    /\ got = EmptyMap
    /\ announced = EmptyMap
    /\ written2 = EmptyMap
    /\ report = EmptyMap
    /\ report2 = EmptyMap
    /\ input = <<>>
    /\ realtime = NoRealtime
    /\ detection = NoDetection
    /\ store = NoStore
    /\ numbering = NoNumbering
    /\ feeding = NoFeeding
    /\ pipeline = Idle
    /\ planner = NoPlan
    /\ extractor = NoExtractor
    /\ pool = NoPool
    /\ parallel = NoParallel
    /\ controller = NoController
    /\ tui = [messages |-> <<>>, handled |-> 0, event |-> "new", errors |-> 0]

\* handle_event(Progress), as long as no other event was handled
HandleProgress ==
    /\ tui.event \in {"new", "Progress"}
    /\ tui.handled <= MessageLimit
    /\ tui' = [tui EXCEPT !.messages = handle_event(@, Progress),
                          !.handled = @ + 1,
                          !.event = "Progress"]
    /\ UNCHANGED <<decoder_vars, pipeline, planner, extractor, pool, parallel,
                   controller, feeding, numbering, store, detection, realtime>>

\* handle_event(SystemError)
HandleSystemError ==
    /\ tui.event # "none"
    /\ tui.handled <= MessageLimit + MaxLateEvents
    /\ tui' = [tui EXCEPT !.messages = handle_event(@, SystemError),
                          !.handled = IF @ > MessageLimit THEN @ + 1
                                      ELSE MessageLimit + 1,
                          !.event = "SystemError",
                          !.errors = 1]
    /\ UNCHANGED <<decoder_vars, pipeline, planner, extractor, pool, parallel,
                   controller, feeding, numbering, store, detection, realtime>>

\* handle_event(InitializationProgress)
HandleInitializationProgress ==
    /\ tui.event # "none"
    /\ tui.handled <= MessageLimit + MaxLateEvents
    /\ tui' = [tui EXCEPT !.messages = handle_event(@, InitializationProgress),
                          !.handled = IF @ > MessageLimit THEN @ + 1
                                      ELSE MessageLimit + 1,
                          !.event = "InitializationProgress"]
    /\ UNCHANGED <<decoder_vars, pipeline, planner, extractor, pool, parallel,
                   controller, feeding, numbering, store, detection, realtime>>

TuiNext ==
    \/ HandleProgress
    \/ HandleSystemError
    \/ HandleInitializationProgress

TuiSpec == TuiInit /\ [][TuiNext]_vars

\* the list m without its last element
Front(m) == SubSeq(m, 1, Len(m) - 1)

\* the step adds a message to the list: the new list ends with it, and before
\* it come the messages of the old list, all of them or all but the oldest
AddsMessage(message) ==
    /\ tui'.messages # <<>>
    /\ tui'.messages[Len(tui'.messages)] = message
    /\ Front(tui'.messages) \in {tui.messages, Tail(tui.messages)}

\* the step handles the event and so changes the list as C27 says
HandledAsClaimed ==
    /\ tui'.event = "SystemError" =>
           /\ tui'.messages # <<>>
           /\ MessageContains(tui'.messages[Len(tui'.messages)], "System Error")
    /\ (tui'.event = "InitializationProgress" /\ tui.errors > 0) =>
           AddsMessage(FormatMessage(InitializationProgress))

\* C27: after TuiState handles a SystemError its message list is non-empty
\* and its newest message contains the text System Error, and each
\* InitializationProgress handled afterwards adds a further message.
C27_MessagesAdded == [][tui'.handled # tui.handled => HandledAsClaimed]_vars

\* an InitializationProgress was handled after a SystemError with the list
\* at its limit
C27_Witness ==
    /\ tui.event = "InitializationProgress"
    /\ tui.errors > 0
    /\ Len(tui.messages) = MessageLimit

\* ------------------------------------------------------------------------
\* The order in which the decoding paths feed their observations
\* ------------------------------------------------------------------------
DecodingPaths == {"process_combined_jsonl_files", "decode_command",
                  "extract_decode_tui_mode"}

\* the observations of a run
ObservedCodes == 1 + 2

\* an observation: the frame it was seen in and the kind of its payload
ObservationSet == [frame_number : 0..2, kind : {"M", "D"}]

\* the permutations of a sequence
Reorderings(seq) ==
    {[i \in DOMAIN seq |-> seq[order[i]]] : order \in Orders(DOMAIN seq)}

\* Vec::sort_by_key(|qr| qr.frame_number), a stable sort: qr goes behind the
\* elements of the sorted list whose key is not larger
RECURSIVE sort_by_key(_)
sort_by_key(seq) ==
    IF seq = <<>> THEN <<>>
    ELSE LET sorted == sort_by_key(Front(seq))
             qr     == seq[Len(seq)]
             keep   == Cardinality({i \in DOMAIN sorted :
                           sorted[i].frame_number <= qr.frame_number})
         IN SubSeq(sorted, 1, keep) \o <<qr>>
                \o SubSeq(sorted, keep + 1, Len(sorted))

starts_with_M(qr) == qr.kind = "M"

starts_with_D(qr) == qr.kind = "D"

\* decode_command: metadata_packets, then data_packets
metadata_first(qr_codes) == SelectSeq(qr_codes, starts_with_M) \o SelectSeq(qr_codes, starts_with_D)

\* the observations as they arrive: from the chunk sidecars in the order of
\* read_dir, from the JSON file, from the channel of the consumers
FeedingInit ==
    /\ engine = "main"
    /\ st = NewState
    /\ phase = "feed"
    /\ fed = 0
    /\ data_phase = FALSE
    /\ metas = 0
    /\ orphans = 0
    /\ shadow = NewState
    /\ scen = 0
    /\ got = EmptyMap
    /\ announced = EmptyMap
    /\ written2 = EmptyMap
    /\ report = EmptyMap
    /\ report2 = EmptyMap
    /\ input = <<>>
    /\ realtime = NoRealtime
    /\ detection = NoDetection
    /\ store = NoStore
    /\ numbering = NoNumbering
    /\ pipeline = Idle
    /\ planner = NoPlan
    /\ extractor = NoExtractor
    /\ pool = NoPool
    /\ parallel = NoParallel
    /\ controller = NoController
    /\ tui = NoTui
    /\ \E path \in DecodingPaths, arrival \in [1..ObservedCodes -> ObservationSet] :
         \E second \in IF path = "extract_decode_tui_mode"
                       THEN Reorderings(arrival) ELSE {<<>>} :
            feeding = [path |-> path, arrival |-> arrival, second |-> second,
                       queue |-> <<>>, fed |-> <<>>]

\* process_combined_jsonl_files: the combined observations are sorted and
\* routed by the calling thread
CombineAndSort ==
    /\ feeding.path = "process_combined_jsonl_files"
    /\ feeding.queue = <<>>
    /\ feeding' = [feeding EXCEPT
           !.queue = [t \in {"caller"} |-> sort_by_key(feeding.arrival)]]
    /\ UNCHANGED <<decoder_vars, pipeline, planner, extractor, pool, parallel,
                   controller, tui, numbering, store, detection, realtime>>

\* decode_command: the codes of the JSON file are split in metadata and data
\* packets
SeparatePackets ==
    /\ feeding.path = "decode_command"
    /\ feeding.queue = <<>>
    /\ feeding' = [feeding EXCEPT
           !.queue = [t \in {"caller"} |-> metadata_first(feeding.arrival)]]
    /\ UNCHANGED <<decoder_vars, pipeline, planner, extractor, pool, parallel,
                   controller, tui, numbering, store, detection, realtime>>

\* extract_decode_tui_mode: the decoding thread reads result_rx, the thread
\* of the background extraction reads the results of extract_qr_codes_for_tui
SpawnThreads ==
    /\ feeding.path = "extract_decode_tui_mode"
    /\ feeding.queue = <<>>
    /\ feeding' = [feeding EXCEPT
           !.queue = [t \in {"decoding", "extraction"} |->
                         IF t = "decoding" THEN feeding.arrival
                         ELSE feeding.second]]
    /\ UNCHANGED <<decoder_vars, pipeline, planner, extractor, pool, parallel,
                   controller, tui, numbering, store, detection, realtime>>

\* process_qr_code / route of the next observation of thread t, under the
\* lock of the decoder where there is one
FeedObservation(t) ==
    /\ feeding.queue[t] # <<>>
    /\ feeding' = [feeding EXCEPT
           !.queue[t] = Tail(@),
           !.fed = Append(@, [frame_number |-> feeding.queue[t][1].frame_number,
                              thread |-> t])]
    /\ UNCHANGED <<decoder_vars, pipeline, planner, extractor, pool, parallel,
                   controller, tui, numbering, store, detection, realtime>>

FeedingNext ==
    \/ CombineAndSort
    \/ SeparatePackets
    \/ SpawnThreads
    \/ \E t \in DOMAIN feeding.queue : FeedObservation(t)

FeedingSpec == FeedingInit /\ [][FeedingNext]_vars

\* C28: in every decoding path the decoder receives the packets in
\* non-decreasing frame_number order.
C28_FedInFrameOrder ==
    \A i, j \in DOMAIN feeding.fed :
        i < j => feeding.fed[i].frame_number <= feeding.fed[j].frame_number

\* C29: all packets of a decoder are fed by one task: no two threads feed
\* the same decoder.
C29_SingleFeeder ==
    \A i, j \in DOMAIN feeding.fed : feeding.fed[i].thread = feeding.fed[j].thread

\* ------------------------------------------------------------------------
\* The peeling after an ingest
\* ------------------------------------------------------------------------
\* the source chunks of a pending coded packet that the decoder does not hold
MissingChunks(fd, packet) ==
    {packet.source_chunks[i] : i \in DOMAIN packet.source_chunks}
        \ DOMAIN fd.source_chunks

\* no pending coded packet of the decoder lacks fewer than two source chunks
Peeled(fd) ==
    \A i \in DOMAIN fd.coded_packets :
        Cardinality(MissingChunks(fd, fd.coded_packets[i])) >= 2

\* the step has added a chunk to the chunks the decoder of file k holds
AddsChunk(k) ==
    /\ k \in DOMAIN st.files
    /\ k \in DOMAIN st'.files
    /\ DOMAIN st.files[k].source_chunks # DOMAIN st'.files[k].source_chunks
    /\ DOMAIN st.files[k].source_chunks \subseteq DOMAIN st'.files[k].source_chunks

\* after an ingest that adds a chunk the decoder is peeled
PeeledAfterIngest ==
    \A k \in DOMAIN st.files :
        (phase = "feed" /\ phase' = "feed" /\ AddsChunk(k)) => Peeled(st'.files[k])

\* C30: after every ingest that adds a chunk to the held set, from a
\* systematic record or from recovery, no pending coded packet is left with
\* zero or exactly one missing source chunk.
C30_PeeledToFixpoint == [][PeeledAfterIngest]_vars

\* ------------------------------------------------------------------------
\* The frame numbers recorded for the chunks
\* ------------------------------------------------------------------------
NumberingFns == {"extract_qr_simple_external", "combine_jsonl_files",
                 "process_video_segment_with_progress"}

NumberedChunks == 0..1

\* video packets of a chunk (frames of a segment)
ChunkPackets == {2, 4}

Strides == {1, 2}

\* "-frames:v", "5": the images ffmpeg writes for a chunk
FrameImages == 5

\* the sum of the first n entries of a function over 0..
RECURSIVE SumBelow(_, _)
SumBelow(f, n) == IF n = 0 THEN 0 ELSE f[n - 1] + SumBelow(f, n - 1)

\* the numbers frame_number takes when a packet is sent to the decoder
\* (frame_number % skip == 0), for packets numbered first..last
DecodedNumbers(first, last, skip) == {f \in first..last : f % skip = 0}

NumberingInit ==
    /\ engine = "main"
    /\ st = NewState
    /\ phase = "feed"
    /\ fed = 0
    /\ data_phase = FALSE
    /\ metas = 0
    /\ orphans = 0
    /\ shadow = NewState
    /\ scen = 0
    /\ got = EmptyMap
    /\ announced = EmptyMap
    /\ written2 = EmptyMap
    /\ report = EmptyMap
    /\ report2 = EmptyMap
    /\ input = <<>>
    /\ realtime = NoRealtime
    /\ detection = NoDetection
    /\ store = NoStore
    /\ pipeline = Idle
    /\ planner = NoPlan
    /\ extractor = NoExtractor
    /\ pool = NoPool
    /\ parallel = NoParallel
    /\ controller = NoController
    /\ tui = NoTui
    /\ feeding = NoFeeding
    /\ \E fn \in NumberingFns, skip \in Strides, packets \in ChunkPackets :
          numbering = [fn |-> fn, skip |-> skip, packets |-> packets,
                       sidecar |-> EmptyMap, frames_processed |-> EmptyMap,
                       observed |-> EmptyMap]

\* extract_qr_simple_external on chunk c: frame_number is the position of the
\* image in the listing of the chunk's temp directory; codes are found in
\* some of the images
ExtractSimpleExternal(c) ==
    /\ numbering.fn = "extract_qr_simple_external"
    /\ c \notin DOMAIN numbering.observed
    /\ \E images \in 1..FrameImages :
       \E found \in SUBSET (0..(images - 1)) :
          numbering' = [numbering EXCEPT !.observed = Put(@, c, found)]
    /\ UNCHANGED <<decoder_vars, pipeline, planner, extractor, pool, parallel,
                   controller, tui, feeding, store, detection, realtime>>

\* extract_chunk_to_jsonl on chunk c: frame_number counts the video packets
\* of the chunk file from 0, frames_processed the decoded frames; codes are
\* found in some of the decoded frames
ExtractChunkToJsonl(c) ==
    /\ numbering.fn = "combine_jsonl_files"
    /\ c \notin DOMAIN numbering.sidecar
    /\ LET decoded == DecodedNumbers(0, numbering.packets - 1, numbering.skip)
       IN \E found \in SUBSET decoded :
             numbering' = [numbering EXCEPT
                 !.sidecar = Put(@, c, found),
                 !.frames_processed = Put(@, c, Cardinality(decoded))]
    /\ UNCHANGED <<decoder_vars, pipeline, planner, extractor, pool, parallel,
                   controller, tui, feeding, store, detection, realtime>>

\* combine_jsonl_files over the sidecars in chunk order: every frame_number
\* is raised by total_frames, the sum of frames_processed of the footers
\* read so far
CombineJsonlFiles ==
    /\ numbering.fn = "combine_jsonl_files"
    /\ DOMAIN numbering.sidecar = NumberedChunks
    /\ numbering.observed = EmptyMap
    /\ numbering' = [numbering EXCEPT !.observed =
           [c \in NumberedChunks |->
               {frame_num + SumBelow(numbering.frames_processed, c) :
                    frame_num \in numbering.sidecar[c]}]]
    /\ UNCHANGED <<decoder_vars, pipeline, planner, extractor, pool, parallel,
                   controller, tui, feeding, store, detection, realtime>>

\* process_video_segment_with_progress on segment c, whose start and end
\* times are c and c + 1 segment durations of numbering.packets frames at
\* the 30 fps the function assumes: frame_number starts at start_time * 30
\* and the loop ends once frame_number / 30 > end_time
ProcessVideoSegment(c) ==
    /\ numbering.fn = "process_video_segment_with_progress"
    /\ c \notin DOMAIN numbering.observed
    /\ LET first == c * numbering.packets
           last  == (c + 1) * numbering.packets
       IN \E found \in SUBSET DecodedNumbers(first, last, numbering.skip) :
             numbering' = [numbering EXCEPT !.observed = Put(@, c, found)]
    /\ UNCHANGED <<decoder_vars, pipeline, planner, extractor, pool, parallel,
                   controller, tui, feeding, store, detection, realtime>>

NumberingNext ==
    \/ \E c \in NumberedChunks : ExtractSimpleExternal(c)
    \/ \E c \in NumberedChunks : ExtractChunkToJsonl(c)
    \/ CombineJsonlFiles
    \/ \E c \in NumberedChunks : ProcessVideoSegment(c)

NumberingSpec == NumberingInit /\ [][NumberingNext]_vars

\* C31: for chunks i < j every frame_number recorded for chunk i is smaller
\* than every frame_number recorded for chunk j.
C31_AbsoluteFrameNumbers ==
    \A i, j \in DOMAIN numbering.observed :
        i < j => \A a \in numbering.observed[i], b \in numbering.observed[j] :
                     a < b

\* ------------------------------------------------------------------------
\* The deduplication of a worker
\* ------------------------------------------------------------------------
\* frame rates of the video
FrameRates == {1}

\* W = 2 x fps frames
Window(fps) == 2 * fps

\* the code was detected in the frame and in no earlier frame of the window
\* before it
FirstInWindow(d, fps) ==
    ~\E e \in extractor.detected :
        /\ e.data = d.data
        /\ e.frame_number < d.frame_number
        /\ d.frame_number - e.frame_number <= Window(fps)

\* C32: a payload detected again more than W = 2 x fps frames after its
\* previous occurrence is emitted again, for its new frame.
C32_EmittedAgainAfterWindow ==
    \A fps \in FrameRates : \A d \in extractor.detected :
        FirstInWindow(d, fps) =>
            \E i \in DOMAIN extractor.lines :
                extractor.lines[i] = QrLine(d.frame_number, d.data)

\* ------------------------------------------------------------------------
\* The expected frame count of a chunk
\* ------------------------------------------------------------------------
\* the sidecar of chunk c holds a line for every frame the worker decodes in
\* the chunk
FullyExtracted(c) ==
    /\ pipeline.sidecar[c].exists
    /\ SidecarFrames(pipeline.video, pipeline.sidecar[c])
           = FramesIn(pipeline.video, 0,
                      calculate_expected_frames(pipeline.video, c))

\* the frame coverage of the sidecar reaches the lower of the two thresholds
\* of determine_completion
MeetsFrameCoverage(v, c, a) ==
    a.actual_frames * 100 >= 80 * calculate_expected_frames(v, c)

\* C33: the expected frame count is adjusted for the frame stride: a chunk
\* that was fully extracted, with any stride, meets the frame coverage
\* threshold of the completion criteria.
C33_FullChunkMeetsCoverage ==
    \A c \in ChunkIds(pipeline.video) :
        FullyExtracted(c)
            => MeetsFrameCoverage(pipeline.video, c,
                   analyze_jsonl_content(pipeline.video, pipeline.sidecar[c]))

\* ------------------------------------------------------------------------
\* The frame channel of the producer and the consumers
\* ------------------------------------------------------------------------
\* the channel holds as many frames as it may
ChannelFull == parallel.frame_tx = 4 * parallel.threads

\* the producer waits in its send
ProducerBlocked == parallel.producer = "send" /\ ChannelFull

\* the step takes a frame out of the channel
ConsumerRemoves == parallel'.frame_tx < parallel.frame_tx

\* C34: the frame channel never holds more than 4 x worker_count frames, and
\* while it is full the producer stays in its send until a consumer removes
\* a frame.
C34_BoundedChannel ==
    /\ [](parallel.frame_tx <= 4 * parallel.threads)
    /\ [][ProducerBlocked =>
             \/ ConsumerRemoves
             \/ /\ parallel'.producer = "send"
                /\ parallel'.packets = parallel.packets]_vars

\* the producer waits on a full channel
C34_Witness == ProducerBlocked

\* ------------------------------------------------------------------------
\* The return of the orchestrating function
\* ------------------------------------------------------------------------
\* a thread the orchestrating function started has not finished
WorkerRunning ==
    \/ parallel.producer \in {"loop", "send"}
    \/ ~ConsumersExited
    \/ parallel.decoding = "recv"
    \/ parallel.background = "running"

\* C35: the orchestrating function returns only after every thread it started
\* has finished: when it has returned no producer, consumer, decoding or
\* extraction thread is still running.
C35_ReturnsAfterWorkers ==
    parallel.orchestrator = "returned" => ~WorkerRunning

\* ------------------------------------------------------------------------
\* The files written at their final path
\* ------------------------------------------------------------------------
\* the functions that write a file: the resume state and a reconstructed file
StoreFns == {"ResumeState::save", "reconstruct_file_owned"}

\* the contents a write is given: the serialized state, or the bytes of the
\* file
StoreContents ==
    UNION { [1..n -> {1, 2}] : n \in {2, 3} }

\* the writes of a run
MaxWrites == 1 + 2

StoreInit ==
    /\ engine = "main"
    /\ st = NewState
    /\ phase = "feed"
    /\ fed = 0
    /\ data_phase = FALSE
    /\ metas = 0
    /\ orphans = 0
    /\ shadow = NewState
    /\ scen = 0
    /\ got = EmptyMap
    /\ announced = EmptyMap
    /\ written2 = EmptyMap
    /\ report = EmptyMap
    /\ report2 = EmptyMap
    /\ input = <<>>
    /\ realtime = NoRealtime
    /\ detection = NoDetection
    /\ numbering = NoNumbering
    /\ feeding = NoFeeding
    /\ tui = NoTui
    /\ controller = NoController
    /\ parallel = NoParallel
    /\ pool = NoPool
    /\ pipeline = Idle
    /\ planner = NoPlan
    /\ extractor = NoExtractor
    /\ \E fn \in StoreFns :
          store = [fn       |-> fn,
                   exists   |-> FALSE,
                   content  |-> <<>>,
                   writer   |-> "idle",
                   data     |-> <<>>,
                   writes   |-> 0,
                   crashed  |-> FALSE,
                   complete |-> {}]

\* fs::write(path, data), File::create: the file at the final path is created
\* or emptied
FileCreate ==
    /\ store.writer = "idle"
    /\ ~store.crashed
    /\ store.writes < MaxWrites
    /\ \E data \in StoreContents :
          store' = [store EXCEPT !.exists = TRUE,
                                 !.content = <<>>,
                                 !.writer = "writing",
                                 !.data = data,
                                 !.writes = @ + 1]
    /\ UNCHANGED <<decoder_vars, pipeline, planner, extractor, pool, parallel, controller, tui, feeding, numbering, detection, realtime>>

\* fs::write(path, data), write_all: one write passes the next bytes on to
\* the file; after the last of them the write has ended
WriteAll ==
    /\ store.writer = "writing"
    /\ ~store.crashed
    /\ \E n \in (Len(store.content) + 1)..Len(store.data) :
          store' = [store EXCEPT
                       !.content = SubSeq(store.data, 1, n),
                       !.writer = IF n = Len(store.data) THEN "idle"
                                  ELSE "writing",
                       !.complete = IF n = Len(store.data)
                                    THEN @ \cup {store.data} ELSE @]
    /\ UNCHANGED <<decoder_vars, pipeline, planner, extractor, pool, parallel, controller, tui, feeding, numbering, detection, realtime>>

\* the process is killed or the machine stops
Crash ==
    /\ store.fn # "none"
    /\ ~store.crashed
    /\ store' = [store EXCEPT !.crashed = TRUE]
    /\ UNCHANGED <<decoder_vars, pipeline, planner, extractor, pool, parallel, controller, tui, feeding, numbering, detection, realtime>>

StoreNext ==
    \/ FileCreate
    \/ WriteAll
    \/ Crash

StoreSpec == StoreInit /\ [][StoreNext]_vars

\* the file at the final path holds what a write that ended has written
WholeFile == store.content \in store.complete

\* C36: the resume state and the reconstructed files are written atomically:
\* after a crash the file at the final path, if there is one, is the whole
\* content of a write that ended, never a part of a content.
C36_NoPartialFile ==
    (store.crashed /\ store.exists) => WholeFile

\* ------------------------------------------------------------------------
\* Files are written from whole decoders
\* ------------------------------------------------------------------------
\* the decoder holds a chunk for every index of its file
HoldsEveryChunk(fd) ==
    \A c \in 0..(fd.metadata.chunks_count - 1) : c \in DOMAIN fd.source_chunks

\* every file the step writes comes from a decoder that holds every chunk
WritesWholeFiles ==
    \A name \in DOMAIN st'.written :
        Emitted(name) => HoldsEveryChunk(st'.files[st'.written[name].by])

\* C37: a file is written only when its decoder holds every chunk index in
\* 0..chunks_count-1, and a decoder counts as complete only then: chunks with
\* an index out of range neither complete a file nor get a file with missing
\* chunks written.
C37_WrittenOnlyWhenWhole ==
    /\ [](\A k \in DOMAIN st.files :
              Complete(st.files[k]) => HoldsEveryChunk(st.files[k]))
    /\ [][WritesWholeFiles]_vars

\* ------------------------------------------------------------------------
\* The resume controller detects the resume point
\* ------------------------------------------------------------------------
\* the videos of the restarted runs: those of the chunk workflow and one
\* whose chunks have more than 1000 frames
DetectVideos ==
    Videos \cup { [total_duration |-> 240, frame_rate |-> 10, chunk_count |-> 2,
                   skip_frames |-> 0] }

\* the sidecars the stopped run can have left for chunk c: none, an empty
\* one, one cut short after 20 or 200 frames, the whole one
LeftSidecars(v, c) ==
    {NoSidecar} \cup
    { [exists |-> TRUE, lo |-> 0, hi |-> h] :
          h \in {0, 20, 200, calculate_expected_frames(v, c)} }

\* content.lines().count()
line_count(v, sc) == Cardinality(FramesIn(v, sc.lo, sc.hi))

\* the test of can_resume_phase_3 on one sidecar
has_reasonable_content(v, sc) == sc.exists /\ line_count(v, sc) >= 10

\* ResumeState::is_jsonl_incomplete
is_jsonl_incomplete(v, sc) == ~sc.exists \/ line_count(v, sc) < 100

\* ResumeController::analyze_jsonl_completeness:
\* [is_complete, last_frame, qr_count]
analyze_jsonl_completeness(v, sc) ==
    LET qr_count  == line_count(v, sc)
        max_frame == analyze_jsonl_content(v, sc).max_frame
    IN IF ~sc.exists \/ qr_count = 0
       THEN [is_complete |-> FALSE, last_frame |-> 0, qr_count |-> 0]
       ELSE [is_complete |-> qr_count >= 500 /\ max_frame > 1000,
             last_frame  |-> max_frame,
             qr_count    |-> qr_count]

\* ResumeController::new with ResumeState::new: no chunk is tracked
DetectInit ==
    /\ engine = "main"
    /\ st = NewState
    /\ phase = "feed"
    /\ fed = 0
    /\ data_phase = FALSE
    /\ metas = 0
    /\ orphans = 0
    /\ shadow = NewState
    /\ scen = 0
    /\ got = EmptyMap
    /\ announced = EmptyMap
    /\ written2 = EmptyMap
    /\ report = EmptyMap
    /\ report2 = EmptyMap
    /\ input = <<>>
    /\ realtime = NoRealtime
    /\ store = NoStore
    /\ numbering = NoNumbering
    /\ feeding = NoFeeding
    /\ tui = NoTui
    /\ controller = NoController
    /\ parallel = NoParallel
    /\ pool = NoPool
    /\ pipeline = Idle
    /\ planner = NoPlan
    /\ extractor = NoExtractor
    /\ \E v \in DetectVideos, mp4 \in BOOLEAN :
       \E sidecar \in [ChunkIds(v) -> UNION {LeftSidecars(v, c) : c \in ChunkIds(v)}] :
          /\ \A c \in ChunkIds(v) : sidecar[c] \in LeftSidecars(v, c)
          /\ detection = [video        |-> v,
                          sidecar      |-> sidecar,
                          mp4          |-> mp4,
                          chunks       |-> [c \in ChunkIds(v) |-> "untracked"],
                          stage        |-> "phase_3",
                          resume_point |-> "none"]

\* the chunks before the first one whose sidecar is missing or has fewer than
\* 10 lines
PassedBeforeFailure(v, sidecar) ==
    { c \in ChunkIds(v) :
          \A b \in 0..c : has_reasonable_content(v, sidecar[b]) }

\* ResumeController::can_resume_phase_3, called by detect_resume_point: the
\* loop marks a chunk Completed when its sidecar has 10 lines or more and
\* returns false at the first sidecar that has not
can_resume_phase_3 ==
    /\ detection.stage = "phase_3"
    /\ LET v      == detection.video
           passed == PassedBeforeFailure(v, detection.sidecar)
           chunks == [c \in ChunkIds(v) |->
                         IF c \in passed
                         THEN update_chunk_progress(detection.chunks, c,
                                                    "Completed")[c]
                         ELSE detection.chunks[c]]
       IN detection' =
              IF passed = ChunkIds(v)
              THEN [detection EXCEPT !.chunks = chunks,
                                     !.stage = "done",
                                     !.resume_point = "Phase3"]
              ELSE [detection EXCEPT !.chunks = chunks,
                                     !.stage = "phase_2"]
    /\ UNCHANGED <<decoder_vars, pipeline, planner, extractor, pool, parallel, controller, tui, feeding, numbering, store, realtime>>

\* ResumeController::get_incomplete_chunks: the status of every chunk is set
\* from the analysis of its sidecar
get_incomplete_chunks(v, sidecar, chunks) ==
    [c \in ChunkIds(v) |->
        LET a == analyze_jsonl_completeness(v, sidecar[c])
            status == IF a.is_complete THEN "Completed"
                      ELSE IF a.last_frame > 0 THEN "Interrupted"
                      ELSE "NotStarted"
        IN update_chunk_progress(chunks, c, status)[c]]

\* detect_resume_point after can_resume_phase_3 has returned false:
\* can_resume_phase_2 and get_incomplete_chunks, or the start from phase 1
can_resume_phase_2 ==
    /\ detection.stage = "phase_2"
    /\ detection' =
           IF detection.mp4
           THEN [detection EXCEPT
                    !.chunks = get_incomplete_chunks(detection.video,
                                                     detection.sidecar,
                                                     detection.chunks),
                    !.stage = "done",
                    !.resume_point = "Phase2"]
           ELSE [detection EXCEPT !.stage = "done",
                                  !.resume_point = "Phase1"]
    /\ UNCHANGED <<decoder_vars, pipeline, planner, extractor, pool, parallel, controller, tui, feeding, numbering, store, realtime>>

DetectNext ==
    \/ can_resume_phase_3
    \/ can_resume_phase_2

DetectSpec == DetectInit /\ [][DetectNext]_vars

\* the step leaves the chunk Completed
StaysCompleted(c) ==
    (detection.chunks[c] = "Completed"
         /\ detection'.sidecar[c] = detection.sidecar[c])
        => detection'.chunks[c] = "Completed"

\* C38: a chunk whose status is Completed keeps that status in every update
\* that finds its sidecar unchanged: it never goes back to NotStarted,
\* Processing, Interrupted or Failed.
C38_CompletedIsFinal ==
    [][\A c \in ChunkIds(detection.video) : StaysCompleted(c)]_vars

\* the resume logic treats the chunk c as complete
TreatedAsComplete(c) ==
    \/ detection.chunks[c] = "Completed"
    \/ detection.resume_point = "Phase3"
    \/ /\ detection.chunks[c] = "untracked"
       /\ ~is_jsonl_incomplete(detection.video, detection.sidecar[c])

\* C39: whenever the resume logic treats a chunk as complete, by marking it
\* Completed, by resuming at phase 3 or by leaving an untracked chunk out of
\* the incomplete ones, the completion detector judges the sidecar of that
\* chunk complete.
C39_CompletenessTestsAgree ==
    \A c \in ChunkIds(detection.video) :
        TreatedAsComplete(c)
            => JudgedComplete(detection.video, detection.sidecar, c)

\* ------------------------------------------------------------------------
\* process_video_realtime: the extraction thread, the decoding thread, the
\* loop of the interface
\* ------------------------------------------------------------------------
\* the video packets of the input of the extraction thread
RealtimePackets == 1 + 4

RealtimeInit ==
    /\ engine = "main"
    /\ st = NewState
    /\ phase = "feed"
    /\ fed = 0
    /\ data_phase = FALSE
    /\ metas = 0
    /\ orphans = 0
    /\ shadow = NewState
    /\ scen = 0
    /\ got = EmptyMap
    /\ announced = EmptyMap
    /\ written2 = EmptyMap
    /\ report = EmptyMap
    /\ report2 = EmptyMap
    /\ input = <<>>
    /\ detection = NoDetection
    /\ store = NoStore
    /\ numbering = NoNumbering
    /\ feeding = NoFeeding
    /\ tui = NoTui
    /\ controller = NoController
    /\ parallel = NoParallel
    /\ pool = NoPool
    /\ pipeline = Idle
    /\ planner = NoPlan
    /\ extractor = NoExtractor
    /\ realtime = [extraction |-> "running",
                   packets    |-> RealtimePackets,
                   rx         |-> <<>>,
                   decoding   |-> "recv",
                   main       |-> "loop",
                   extraction_complete |-> FALSE,
                   decoding_complete   |-> FALSE]

\* extraction_thread_optimized: one video packet of the loop. Its codes are
\* sent as QrCode messages, or a call followed by `?` fails and the thread
\* returns the error
ExtractionPacket ==
    /\ realtime.extraction = "running"
    /\ realtime.packets > 0
    /\ \/ realtime' = [realtime EXCEPT !.packets = @ - 1,
                                       !.rx = Append(@, "QrCode")]
       \/ realtime' = [realtime EXCEPT !.extraction = "finished"]
    /\ UNCHANGED <<decoder_vars, pipeline, planner, extractor, pool, parallel, controller, tui, feeding, numbering, store, detection>>

\* extraction_thread_optimized after the last packet:
\* tx.send(AppMessage::ExtractionComplete)
ExtractionEnd ==
    /\ realtime.extraction = "running"
    /\ realtime.packets = 0
    /\ realtime' = [realtime EXCEPT !.extraction = "finished",
                                    !.rx = Append(@, "ExtractionComplete")]
    /\ UNCHANGED <<decoder_vars, pipeline, planner, extractor, pool, parallel, controller, tui, feeding, numbering, store, detection>>

\* decoding_thread: rx.recv() gives the next message; the loop is left on
\* ExtractionComplete. The thread holds a sender of the channel itself, so
\* recv never fails on a closed channel
DecodingRecv ==
    /\ realtime.decoding = "recv"
    /\ realtime.rx # <<>>
    /\ realtime' = [realtime EXCEPT
                       !.rx = Tail(@),
                       !.decoding = IF Head(realtime.rx) = "ExtractionComplete"
                                    THEN "finished" ELSE "recv"]
    /\ UNCHANGED <<decoder_vars, pipeline, planner, extractor, pool, parallel, controller, tui, feeding, numbering, store, detection>>

\* process_video_realtime, the loop: the key q or Esc leaves it
KeyQuit ==
    /\ realtime.main = "loop"
    /\ realtime' = [realtime EXCEPT !.main = "join"]
    /\ UNCHANGED <<decoder_vars, pipeline, planner, extractor, pool, parallel, controller, tui, feeding, numbering, store, detection>>

\* process_video_realtime, one turn of the loop without a key: the loop is
\* left when both threads were seen finished, else is_finished is asked of
\* the extraction thread and, once that has finished, of the decoding thread
TuiLoop ==
    /\ realtime.main = "loop"
    /\ IF realtime.extraction_complete /\ realtime.decoding_complete
       THEN realtime' = [realtime EXCEPT !.main = "join"]
       ELSE LET extraction_complete == realtime.extraction = "finished"
            IN realtime' = [realtime EXCEPT
                   !.extraction_complete = extraction_complete,
                   !.decoding_complete =
                       IF extraction_complete /\ ~realtime.decoding_complete
                       THEN realtime.decoding = "finished"
                       ELSE @]
    /\ UNCHANGED <<decoder_vars, pipeline, planner, extractor, pool, parallel, controller, tui, feeding, numbering, store, detection>>

\* process_video_realtime after the loop: extraction_handle.join(),
\* decoding_handle.join() and the return
JoinAndReturn ==
    /\ realtime.main = "join"
    /\ realtime.extraction = "finished"
    /\ realtime.decoding = "finished"
    /\ realtime' = [realtime EXCEPT !.main = "returned"]
    /\ UNCHANGED <<decoder_vars, pipeline, planner, extractor, pool, parallel, controller, tui, feeding, numbering, store, detection>>

RealtimeNext ==
    \/ ExtractionPacket
    \/ ExtractionEnd
    \/ DecodingRecv
    \/ KeyQuit
    \/ TuiLoop
    \/ JoinAndReturn

RealtimeSpec == RealtimeInit /\ [][RealtimeNext]_vars

\* every thread that can take a step is scheduled in the end; the user need
\* not press a key
RealtimeFairSpec ==
    /\ RealtimeSpec
    /\ WF_vars(ExtractionPacket)
    /\ WF_vars(ExtractionEnd)
    /\ WF_vars(DecodingRecv)
    /\ WF_vars(TuiLoop)
    /\ WF_vars(JoinAndReturn)

\* C40: the pipeline terminates: once the extraction thread has finished,
\* normally or with an error, the decoding thread finishes in the end and the
\* orchestrating function returns.
C40_PipelineTerminates ==
    (realtime.extraction = "finished")
        ~> (realtime.decoding = "finished" /\ realtime.main = "returned")

====
